---- MODULE Spec2Model ----
(***************************************************************************)
(* Model of the match-three rules engine (src/hooks/use-game-state.ts,     *)
(* src/lib/game-utils.ts and the match detector of src/unnamed/part_002).  *)
(*                                                                         *)
(* The React hook is modelled as a timed state machine: the hook's state   *)
(* values are the variables, every player intent (handleSwap,              *)
(* handleTileClick) is an action taken at the current instant, and every   *)
(* continuation of an async handler after an `await setTimeout(d)` is a    *)
(* pending task with the time `due` (ms) left until it runs.  Advance runs *)
(* the earliest pending task and lets that much time pass for the others.  *)
(***************************************************************************)
EXTENDS Integers, Sequences, FiniteSets, TLC

(***************************************************************************)
(* Program constants                                                       *)
(***************************************************************************)
BOMB_VERTICAL == 100
BOMB_HORIZONTAL == 101
BOMB_AREA == 102
WOOD_NORMAL == 200
WOOD_BROKEN == 201
STONE_TILE == 300

SWAP_SETTLE == 150
INVALID_SWAP_DURATION == 150
REMOVAL_DURATION == 150
FALL_SETTLE == 300
FRAME_DELAY == 20
TILE_BREAK_FRAGMENT_SPAWN_DELAY == 15
DIRECTIONAL_BOMB_TILE_HIT_STEP_MS == 70
RESHUFFLE_PAUSE == 500
RESHUFFLE_ANIMATION == 600
CHECK_TIMER_DELAY == 100
FAIL_TIMER_DELAY == 100

(***************************************************************************)
(* Bounds of the model                                                     *)
(***************************************************************************)
\* No tile id beyond this one is handed out: a refill that would need more
\* ids is not taken (the run stops there).
MaxTileId == 24

\* A reshuffle redraws the type of this many tiles; the other tiles draw the
\* type they had.
MaxRedrawn == 1

\* handleSwap is asked for two places of one row or one column at most this far
\* apart.
MaxReach == 2

\* At most this many draw loops (getSmartTileType, reshuffleTiles) run out of
\* attempts where a type free of a match exists.
MaxExhaustions == 1

\* The player makes at most this many swaps that match nothing.
MaxInvalidSwaps == 1

\* applyGravity on its own is given lists of at most this many tiles in one
\* column, and of one tile less in two columns.
MaxGravityTiles == 4

(***************************************************************************)
(* Small helpers                                                           *)
(***************************************************************************)
SetMax(S) == CHOOSE x \in S : \A y \in S : y <= x
SetMin(S) == CHOOSE x \in S : \A y \in S : x <= y
Abs(x) == IF x < 0 THEN -x ELSE x
MaxOf(a, b) == IF a >= b THEN a ELSE b

RECURSIVE SeqOfSet(_)
\* the members of a set of integers, ascending
SeqOfSet(S) == IF S = {} THEN <<>> ELSE <<SetMin(S)>> \o SeqOfSet(S \ {SetMin(S)})

SelectSeqIdx(s, Test(_)) == SeqOfSet({i \in DOMAIN s : Test(i)})

Range(s) == {s[i] : i \in DOMAIN s}

(***************************************************************************)
(* Tiles and classifiers (game-utils.ts)                                   *)
(***************************************************************************)
\* createTile: a tile record; rm is the isRemoving flag
createTile(id, type, row, col) == [id |-> id, type |-> type, row |-> row, col |-> col, rm |-> FALSE]

\* the `undefined` of getTileAt / Array.find
NoTile == [id |-> -1, type |-> -1, row |-> -1, col |-> -1, rm |-> FALSE]

isBomb(tileType) == tileType >= 100 /\ tileType < 200
isWoodenTile(tileType) == tileType = WOOD_NORMAL \/ tileType = WOOD_BROKEN
isStoneTile(tileType) == tileType = STONE_TILE

Cells(rows, cols) == (0 .. rows - 1) \X (0 .. cols - 1)

\* tilesToGrid: the last live tile of the list at a cell gives the cell's type
tilesToGrid(ts, rows, cols) ==
    [p \in Cells(rows, cols) |->
        LET idx == {i \in DOMAIN ts : ts[i].row = p[1] /\ ts[i].col = p[2] /\ ~ts[i].rm}
        IN  IF idx = {} THEN -1 ELSE ts[SetMax(idx)].type]

\* getTileAt: the first live tile of the list at (row, col)
getTileAt(ts, row, col) ==
    LET idx == {i \in DOMAIN ts : ts[i].row = row /\ ts[i].col = col /\ ~ts[i].rm}
    IN  IF idx = {} THEN NoTile ELSE ts[SetMin(idx)]

\* grid[r]?.[c] of a cell that may lie outside the grid
GridAt(grid, rows, cols, r, c) ==
    IF r >= 0 /\ r < rows /\ c >= 0 /\ c < cols THEN grid[<<r, c>>] ELSE -1

areAdjacent(p1, p2) ==
    \/ (Abs(p1[1] - p2[1]) = 1 /\ p1[2] = p2[2])
    \/ (Abs(p1[2] - p2[2]) = 1 /\ p1[1] = p2[1])

(***************************************************************************)
(* Match detector (part_002)                                               *)
(***************************************************************************)
\* a bomb counts in a run as well
MatchableBombsToo(t) == t >= 0 /\ ~isWoodenTile(t)

\* the test of currentType in findMatches
Matchable(t) == t >= 0 /\ ~isBomb(t) /\ ~isWoodenTile(t)

RECURSIVE ScanLine(_, _, _, _, _, _)
\* the run-length scan of one line: line[0 .. n-1] are the cell types, i is the
\* loop index (1 .. n), and the result lists the runs <<start, count, type>>
ScanLine(line, n, i, count, currentType, start) ==
    IF i > n THEN <<>>
    ELSE LET cellType == IF i < n THEN line[i] ELSE -1
         IN  IF cellType = currentType /\ Matchable(currentType)
             THEN ScanLine(line, n, i + 1, count + 1, currentType, start)
             ELSE (IF count >= 3 /\ Matchable(currentType)
                   THEN << <<start, count, currentType>> >>
                   ELSE <<>>)
                  \o ScanLine(line, n, i + 1, 1, cellType, i)

HMatch(row, run) ==
    [positions |-> [k \in 1 .. run[2] |-> <<row, run[1] + k - 1>>],
     direction |-> "horizontal", matchLength |-> run[2], tileType |-> run[3],
     startRow |-> row, endRow |-> row,
     startCol |-> run[1], endCol |-> run[1] + run[2] - 1]

VMatch(col, run) ==
    [positions |-> [k \in 1 .. run[2] |-> <<run[1] + k - 1, col>>],
     direction |-> "vertical", matchLength |-> run[2], tileType |-> run[3],
     startRow |-> run[1], endRow |-> run[1] + run[2] - 1,
     startCol |-> col, endCol |-> col]

RECURSIVE HMatchesFrom(_, _, _, _)
HMatchesFrom(grid, rows, cols, row) ==
    IF row >= rows THEN <<>>
    ELSE LET line == [c \in 0 .. cols - 1 |-> grid[<<row, c>>]]
             runs == ScanLine(line, cols, 1, 1, line[0], 0)
         IN  [k \in DOMAIN runs |-> HMatch(row, runs[k])]
             \o HMatchesFrom(grid, rows, cols, row + 1)

RECURSIVE VMatchesFrom(_, _, _, _)
VMatchesFrom(grid, rows, cols, col) ==
    IF col >= cols THEN <<>>
    ELSE LET line == [r \in 0 .. rows - 1 |-> grid[<<r, col>>]]
             runs == ScanLine(line, rows, 1, 1, line[0], 0)
         IN  [k \in DOMAIN runs |-> VMatch(col, runs[k])]
             \o VMatchesFrom(grid, rows, cols, col + 1)

\* findMatches: the horizontal pass, then the vertical pass
findMatches(ts, rows, cols) ==
    LET grid == tilesToGrid(ts, rows, cols)
    IN  HMatchesFrom(grid, rows, cols, 0) \o VMatchesFrom(grid, rows, cols, 0)

\* only the tiles at `from` are moved
MoveFromOnly(ts, from, to) ==
    [i \in DOMAIN ts |->
        IF ts[i].row = from[1] /\ ts[i].col = from[2]
        THEN [ts[i] EXCEPT !.row = to[1], !.col = to[2]]
        ELSE ts[i]]

\* the hypothetical board of isValidSwap: tiles exchanged by position
SwapByPosition(ts, from, to) ==
    [i \in DOMAIN ts |->
        IF ts[i].row = from[1] /\ ts[i].col = from[2]
        THEN [ts[i] EXCEPT !.row = to[1], !.col = to[2]]
        ELSE IF ts[i].row = to[1] /\ ts[i].col = to[2]
        THEN [ts[i] EXCEPT !.row = from[1], !.col = from[2]]
        ELSE ts[i]]

isValidSwap(ts, rows, cols, from, to) ==
    Len(findMatches(SwapByPosition(ts, from, to), rows, cols)) > 0

(***************************************************************************)
(* Board queries used by generation and refill (game-utils.ts)             *)
(***************************************************************************)
\* wouldCreateMatch: the simple check of initializeGrid (left two, up two);
\* a cell not filled yet reads as undefined (-2: equal to no tile type)
wouldCreateMatch(grid, row, col, tileType) ==
    \/ (col >= 2 /\ grid[<<row, col - 1>>] = tileType /\ grid[<<row, col - 2>>] = tileType)
    \/ (row >= 2 /\ grid[<<row - 1, col>>] = tileType /\ grid[<<row - 2, col>>] = tileType)

\* wouldCreateMatchComplete: all six neighbour-pair patterns
wouldCreateMatchComplete(grid, rows, cols, row, col, tileType) ==
    LET getTile(r, c) == GridAt(grid, rows, cols, r, c)
    IN  \/ (col >= 2 /\ getTile(row, col - 1) = tileType /\ getTile(row, col - 2) = tileType
                /\ getTile(row, col - 1) # -1)
        \/ (col >= 1 /\ col < cols - 1 /\ getTile(row, col - 1) = tileType
                /\ getTile(row, col + 1) = tileType /\ getTile(row, col - 1) # -1)
        \/ (col < cols - 2 /\ getTile(row, col + 1) = tileType /\ getTile(row, col + 2) = tileType
                /\ getTile(row, col + 1) # -1)
        \/ (row >= 2 /\ getTile(row - 1, col) = tileType /\ getTile(row - 2, col) = tileType
                /\ getTile(row - 1, col) # -1)
        \/ (row >= 1 /\ row < rows - 1 /\ getTile(row - 1, col) = tileType
                /\ getTile(row + 1, col) = tileType /\ getTile(row - 1, col) # -1)
        \/ (row < rows - 2 /\ getTile(row + 1, col) = tileType /\ getTile(row + 2, col) = tileType
                /\ getTile(row + 1, col) # -1)

(***************************************************************************)
(* Gravity (game-utils.ts, applyGravity)                                   *)
(***************************************************************************)
RECURSIVE SortTopDown(_, _)
\* the indices sorted by row, top-most first
SortTopDown(ts, S) ==
    IF S = {} THEN <<>>
    ELSE LET top == SetMin({ts[i].row : i \in S})
             i0 == SetMin({i \in S : ts[i].row = top})
         IN  <<i0>> \o SortTopDown(ts, S \ {i0})

RECURSIVE SortBottomUp(_, _)
\* the indices S of ts sorted by row, bottom-most first; equal rows keep the
\* order of the list (Array.prototype.sort is stable)
SortBottomUp(ts, S) ==
    IF S = {} THEN <<>>
    ELSE LET top == SetMax({ts[i].row : i \in S})
             i0 == SetMin({i \in S : ts[i].row = top})
         IN  <<i0>> \o SortBottomUp(ts, S \ {i0})

\* the rows of immovable tiles are not skipped
NextFreeRowOntoObstacle(immovable, writeRow) == writeRow

RECURSIVE NextFreeRow(_, _)
\* while (immovablePositions.has(writeRow) && writeRow >= 0) writeRow--
NextFreeRow(immovable, writeRow) ==
    IF writeRow \in immovable /\ writeRow >= 0
    THEN NextFreeRow(immovable, writeRow - 1)
    ELSE writeRow

RECURSIVE GravityRows(_, _, _, _)
\* the pairs <<index, new row>> the forEach over the sorted regular tiles writes
GravityRows(order, k, writeRow, immovable) ==
    IF k > Len(order) THEN {}
    ELSE LET w == NextFreeRow(immovable, writeRow)
         IN  IF w >= 0
             THEN {<<order[k], w>>} \cup GravityRows(order, k + 1, w - 1, immovable)
             ELSE GravityRows(order, k + 1, w, immovable)

GravityOfColumn(ts, rows, col) ==
    LET inCol == {i \in DOMAIN ts : ts[i].col = col}
        immovable == {ts[i].row : i \in {j \in inCol : isWoodenTile(ts[j].type) \/ isStoneTile(ts[j].type)}}
        regular == {i \in inCol : ~isWoodenTile(ts[i].type) /\ ~isStoneTile(ts[i].type)}
    IN  GravityRows(SortBottomUp(ts, regular), 1, rows - 1, immovable)

applyGravity(ts, rows, cols) ==
    LET moved == UNION {GravityOfColumn(ts, rows, c) : c \in 0 .. cols - 1}
    IN  [i \in DOMAIN ts |->
            IF \E m \in moved : m[1] = i
            THEN [ts[i] EXCEPT !.row = (CHOOSE m \in moved : m[1] = i)[2]]
            ELSE ts[i]]

(***************************************************************************)
(* Bombs (game-utils.ts getBombExplosionPositions, use-game-state.ts       *)
(* getBombHitDelayMs and collectBombPropagation)                           *)
(***************************************************************************)
\* an area bomb clears the 3 x 3 block around it
BlastOfRadiusOne(tile, rows, cols) ==
    IF tile.type = BOMB_HORIZONTAL THEN [k \in 1 .. cols |-> <<tile.row, k - 1>>]
    ELSE IF tile.type = BOMB_VERTICAL THEN [k \in 1 .. rows |-> <<k - 1, tile.col>>]
    ELSE IF tile.type = BOMB_AREA
    THEN LET all == [k \in 1 .. 9 |-> <<tile.row - 1 + ((k - 1) \div 3), tile.col - 1 + ((k - 1) % 3)>>]
         IN  SelectSeq(all, LAMBDA p : p[1] >= 0 /\ p[1] < rows /\ p[2] >= 0 /\ p[2] < cols)
    ELSE <<>>

getBombExplosionPositions(tile, rows, cols) ==
    IF tile.type = BOMB_HORIZONTAL THEN [k \in 1 .. cols |-> <<tile.row, k - 1>>]
    ELSE IF tile.type = BOMB_VERTICAL THEN [k \in 1 .. rows |-> <<k - 1, tile.col>>]
    ELSE IF tile.type = BOMB_AREA
    THEN LET all == [k \in 1 .. 25 |-> <<tile.row - 2 + ((k - 1) \div 5), tile.col - 2 + ((k - 1) % 5)>>]
         IN  SelectSeq(all, LAMBDA p : p[1] >= 0 /\ p[1] < rows /\ p[2] >= 0 /\ p[2] < cols)
    ELSE <<>>

getBombHitDelayMs(bomb, pos) ==
    IF bomb.type = BOMB_HORIZONTAL THEN Abs(pos[2] - bomb.col) * DIRECTIONAL_BOMB_TILE_HIT_STEP_MS
    ELSE IF bomb.type = BOMB_VERTICAL THEN Abs(pos[1] - bomb.row) * DIRECTIONAL_BOMB_TILE_HIT_STEP_MS
    ELSE 0

\* the entry queued last is taken
QueueLastIdx(queue) == Len(queue)

\* the index the linear scan for the smallest delayMs settles on (the first of
\* the smallest)
QueueMinIdx(queue) ==
    SetMin({i \in DOMAIN queue : \A j \in DOMAIN queue : queue[i].delayMs <= queue[j].delayMs})

RemoveAt(s, i) == SubSeq(s, 1, i - 1) \o SubSeq(s, i + 1, Len(s))

RECURSIVE PropagationLoop(_, _, _, _, _, _, _)
\* the while loop of collectBombPropagation; posDelay is positionHitDelayMs and
\* bombDelay is bombHitDelayById, both functions on the keys set so far
PropagationLoop(queue, posDelay, bombDelay, events, ts, rows, cols) ==
    IF queue = <<>> THEN [positionHitDelayMs |-> posDelay, bombExplosionEvents |-> events]
    ELSE LET minIdx == QueueMinIdx(queue)
             bomb == queue[minIdx].bomb
             delayMs == queue[minIdx].delayMs
             rest == RemoveAt(queue, minIdx)
         IN  IF bomb.id \in DOMAIN bombDelay /\ bombDelay[bomb.id] <= delayMs
             THEN PropagationLoop(rest, posDelay, bombDelay, events, ts, rows, cols)
             ELSE LET known == (bomb.id :> delayMs) @@ bombDelay
                      poss == getBombExplosionPositions(bomb, rows, cols)
                      hit(p) == delayMs + getBombHitDelayMs(bomb, p)
                      newPos == [p \in Range(poss) \cup DOMAIN posDelay |->
                                    IF p \in Range(poss)
                                    THEN IF p \in DOMAIN posDelay /\ posDelay[p] <= hit(p)
                                         THEN posDelay[p] ELSE hit(p)
                                    ELSE posDelay[p]]
                      pushIdx == SelectSeqIdx(poss, LAMBDA k :
                                    LET t == getTileAt(ts, poss[k][1], poss[k][2])
                                    IN  /\ t # NoTile
                                        /\ isBomb(t.type)
                                        /\ (t.id \notin DOMAIN known \/ hit(poss[k]) < known[t.id]))
                      pushed == [k \in DOMAIN pushIdx |->
                                    [bomb |-> getTileAt(ts, poss[pushIdx[k]][1], poss[pushIdx[k]][2]),
                                     delayMs |-> hit(poss[pushIdx[k]])]]
                  IN  PropagationLoop(rest \o pushed, newPos, known,
                                      Append(events, [bomb |-> bomb, delayMs |-> delayMs]),
                                      ts, rows, cols)

EmptyMap == [x \in {} |-> 0]

collectBombPropagation(initialBombs, ts, rows, cols) ==
    PropagationLoop(initialBombs, EmptyMap, EmptyMap, <<>>, ts, rows, cols)

(***************************************************************************)
(* Valid moves and reshuffle (game-utils.ts)                               *)
(***************************************************************************)
\* the run through (row, col) along direction (dr, dc) counted one way
RECURSIVE CountRun(_, _, _, _, _, _, _, _)
CountRun(grid, rows, cols, r, c, dr, dc, type) ==
    IF r >= 0 /\ r < rows /\ c >= 0 /\ c < cols /\ grid[<<r, c>>] = type
    THEN 1 + CountRun(grid, rows, cols, r + dr, c + dc, dr, dc, type)
    ELSE 0

\* the check of one exchanged cell in wouldSwapCreateMatch
RunThrough(grid, rows, cols, r, c) ==
    LET type == grid[<<r, c>>]
    IN  /\ type >= 0
        /\ type < 100
        /\ \/ 1 + CountRun(grid, rows, cols, r, c - 1, 0, -1, type)
                + CountRun(grid, rows, cols, r, c + 1, 0, 1, type) >= 3
           \/ 1 + CountRun(grid, rows, cols, r - 1, c, -1, 0, type)
                + CountRun(grid, rows, cols, r + 1, c, 1, 0, type) >= 3

\* the swap of two cells of the grid (lines 650-652) followed by the swap back
\* (lines 718-720): the grid the next call of the loop of hasValidMoves sees
SwapAndSwapBack(grid, row1, col1, row2, col2) ==
    LET temp == grid[<<row1, col1>>]
        g1 == [grid EXCEPT ![<<row1, col1>>] = grid[<<row2, col2>>]]
        g2 == [g1 EXCEPT ![<<row2, col2>>] = temp]
        g3 == [g2 EXCEPT ![<<row2, col2>>] = g2[<<row1, col1>>]]
    IN  [g3 EXCEPT ![<<row1, col1>>] = temp]

\* a check that looks at the first exchanged cell only
FirstCellOnly(grid, rows, cols, row1, col1, row2, col2) ==
    LET swapped == [grid EXCEPT ![<<row1, col1>>] = grid[<<row2, col2>>],
                                ![<<row2, col2>>] = grid[<<row1, col1>>]]
    IN  RunThrough(swapped, rows, cols, row1, col1)

wouldSwapCreateMatch(grid, rows, cols, row1, col1, row2, col2) ==
    LET swapped == [grid EXCEPT ![<<row1, col1>>] = grid[<<row2, col2>>],
                                ![<<row2, col2>>] = grid[<<row1, col1>>]]
    IN  RunThrough(swapped, rows, cols, row1, col1) \/ RunThrough(swapped, rows, cols, row2, col2)

hasValidMoves(ts, rows, cols) ==
    LET grid == tilesToGrid(ts, rows, cols)
        ordinary(p) == grid[p] >= 0 /\ grid[p] < 100
    IN  \/ \E p \in Cells(rows, cols) :
              /\ ordinary(p)
              /\ \/ (p[2] < cols - 1 /\ ordinary(<<p[1], p[2] + 1>>)
                        /\ wouldSwapCreateMatch(grid, rows, cols, p[1], p[2], p[1], p[2] + 1))
                 \/ (p[1] < rows - 1 /\ ordinary(<<p[1] + 1, p[2]>>)
                        /\ wouldSwapCreateMatch(grid, rows, cols, p[1], p[2], p[1] + 1, p[2]))
        \/ \E i \in DOMAIN ts : isBomb(ts[i].type)

\* the match test reshuffleTiles runs on an attempt
ReshuffleHasMatch(ts, rows, cols) ==
    LET grid == tilesToGrid(ts, rows, cols)
    IN  \E p \in Cells(rows, cols) :
            /\ grid[p] >= 0
            /\ grid[p] < 100
            /\ \/ (p[2] <= cols - 3 /\ grid[p] = grid[<<p[1], p[2] + 1>>]
                        /\ grid[p] = grid[<<p[1], p[2] + 2>>])
               \/ (p[1] <= rows - 3 /\ grid[p] = grid[<<p[1] + 1, p[2]>>]
                        /\ grid[p] = grid[<<p[1] + 2, p[2]>>])

IsMovable(t) == ~isWoodenTile(t.type) /\ ~isStoneTile(t.type) /\ ~isBomb(t.type)

\* an attempt that returns the retyped movable tiles alone
MovableOnly(ts, newTypes) ==
    LET movable == SelectSeq(ts, IsMovable)
    IN  [k \in DOMAIN movable |-> [movable[k] EXCEPT !.type = newTypes[k]]]

\* one attempt of reshuffleTiles: the movable tiles, retyped by newTypes (a
\* sequence as long as the movable tiles), followed by the immovable ones
ReshuffleAttempt(ts, newTypes) ==
    LET movable == SelectSeq(ts, IsMovable)
        immovable == SelectSeq(ts, LAMBDA t : ~IsMovable(t))
    IN  [k \in DOMAIN movable |-> [movable[k] EXCEPT !.type = newTypes[k]]] \o immovable

\* the boards reshuffleTiles returns when its draws are those of `draws` (a set
\* of type sequences, one type per movable tile); `exhausted` tells that only
\* the failure of all maxAttempts attempts returns the board (the last
\* attempt, which holds a match)
ReshuffleOutcomes(ts, rows, cols, draws) ==
    IF Len(SelectSeq(ts, IsMovable)) = 0 THEN {[tiles |-> ts, exhausted |-> FALSE]}
    ELSE {[tiles |-> ReshuffleAttempt(ts, nt),
           exhausted |-> ReshuffleHasMatch(ReshuffleAttempt(ts, nt), rows, cols)] : nt \in draws}

\* reshuffleTiles: every board it can return
reshuffleTiles(ts, rows, cols, availableTileTypes) ==
    ReshuffleOutcomes(ts, rows, cols,
                      [1 .. Len(SelectSeq(ts, IsMovable)) -> Range(availableTileTypes)])

\* the draws of a reshuffle the model follows: the first MaxRedrawn movable
\* tiles draw any type, the others draw the type they had
BoundedDraws(ts, availableTileTypes) ==
    LET movable == SelectSeq(ts, IsMovable)
        n == Len(movable)
        k == IF MaxRedrawn < n THEN MaxRedrawn ELSE n
    IN  {[i \in 1 .. n |-> IF i <= k THEN nt[i] ELSE movable[i].type] :
            nt \in [1 .. k -> Range(availableTileTypes)]}

(***************************************************************************)
(* Goals (use-game-state.ts)                                               *)
(***************************************************************************)
\* the keys a goalProgress record can get: a key the code never wrote reads
\* as 0 (progress[type] || 0)
ProgressTypes == (0 .. 2) \cup {WOOD_NORMAL, WOOD_BROKEN, STONE_TILE}

\* the goals as the level declares them
GoalsAsDeclared(lv) == lv.goals

\* enhancedGoals: the wood goal is added when the level places wooden tiles
\* and declares no goal for WOOD_NORMAL
enhancedGoals(lv) ==
    IF /\ Len(lv.woodenTilePositions) > 0
       /\ ~\E i \in DOMAIN lv.goals : lv.goals[i].tileType = WOOD_NORMAL
    THEN Append(lv.goals, [tileType |-> WOOD_NORMAL, count |-> Len(lv.woodenTilePositions)])
    ELSE lv.goals

checkGoalsComplete(lv, progress) ==
    \A i \in DOMAIN enhancedGoals(lv) :
        progress[enhancedGoals(lv)[i].tileType] >= enhancedGoals(lv)[i].count

\* the `destroyed` record of updateGoalProgress: per type, how many of the
\* destroyed tiles have it; bombs are not counted
DestroyedCount(destroyedTypes) ==
    [ty \in ProgressTypes |->
        Cardinality({i \in DOMAIN destroyedTypes : destroyedTypes[i] = ty /\ ~isBomb(ty)})]

(***************************************************************************)
(* One blast of a bomb (triggerBombAtPosition, and the loop over           *)
(* bombsToTrigger in handleSwap): what is computed before the tiles are    *)
(* marked                                                                  *)
(***************************************************************************)
\* the tiles found at the positions of a set, in no particular order
TilesAt(ts, positions) ==
    {getTileAt(ts, p[1], p[2]) : p \in positions} \ {NoTile}

\* Math.max over removalDelayByTileId, or 0
MaxRemovalDelay(ts, positions, hitDelay) ==
    LET hit == {p \in positions :
                    LET t == getTileAt(ts, p[1], p[2])
                    IN  t # NoTile /\ ~isWoodenTile(t.type) /\ ~isStoneTile(t.type)}
    IN  IF hit = {} THEN 0
        ELSE SetMax({IF p \in DOMAIN hitDelay THEN hitDelay[p] ELSE 0 : p \in hit})

\* a pass that removes and credits the tile of a bomb-creation cell as well
PassOfBombCellToo(ts, matchedPositions, woodToDamage, skipPositions, hitDelay, bombCreations) ==
    LET destroyed == {t \in TilesAt(ts, matchedPositions) :
                            ~isWoodenTile(t.type) /\ ~isStoneTile(t.type)}
        broken == {t \in woodToDamage : t.type = WOOD_BROKEN}
        destroyedSeq == SeqOfSet({t.id : t \in destroyed})
        typeOfId(id) == (CHOOSE t \in destroyed : t.id = id).type
        destroyedTypes == [k \in DOMAIN destroyedSeq |-> typeOfId(destroyedSeq[k])]
                          \o [k \in 1 .. Cardinality(broken) |-> WOOD_NORMAL]
    IN  [rm |-> {t.id : t \in destroyed} \cup {t.id : t \in broken},
         brk |-> {t.id : t \in {w \in woodToDamage : w.type = WOOD_NORMAL}},
         credit |-> DestroyedCount(destroyedTypes),
         maxDelay |-> MaxRemovalDelay(ts, matchedPositions, hitDelay),
         bc |-> bombCreations,
         matched |-> matchedPositions]

\* a pass that removes every damaged wooden tile at once
PassOfWoodAtOnce(ts, matchedPositions, woodToDamage, skipPositions, hitDelay, bombCreations) ==
    LET destroyed == {t \in TilesAt(ts, matchedPositions \ skipPositions) :
                            ~isWoodenTile(t.type) /\ ~isStoneTile(t.type)}
        destroyedSeq == SeqOfSet({t.id : t \in destroyed})
        typeOfId(id) == (CHOOSE t \in destroyed : t.id = id).type
        destroyedTypes == [k \in DOMAIN destroyedSeq |-> typeOfId(destroyedSeq[k])]
                          \o [k \in 1 .. Cardinality(woodToDamage) |-> WOOD_NORMAL]
    IN  [rm |-> {t.id : t \in destroyed} \cup {t.id : t \in woodToDamage},
         brk |-> {},
         credit |-> DestroyedCount(destroyedTypes),
         maxDelay |-> MaxRemovalDelay(ts, matchedPositions \ skipPositions, hitDelay),
         bc |-> bombCreations,
         matched |-> matchedPositions]

\* a pass that credits a wooden tile at each damage step
PassOfDamageCredited(ts, matchedPositions, woodToDamage, skipPositions, hitDelay, bombCreations) ==
    LET destroyed == {t \in TilesAt(ts, matchedPositions \ skipPositions) :
                            ~isWoodenTile(t.type) /\ ~isStoneTile(t.type)}
        broken == {t \in woodToDamage : t.type = WOOD_BROKEN}
        destroyedSeq == SeqOfSet({t.id : t \in destroyed})
        typeOfId(id) == (CHOOSE t \in destroyed : t.id = id).type
        destroyedTypes == [k \in DOMAIN destroyedSeq |-> typeOfId(destroyedSeq[k])]
                          \o [k \in 1 .. Cardinality(woodToDamage) |-> WOOD_NORMAL]
    IN  [rm |-> {t.id : t \in destroyed} \cup {t.id : t \in broken},
         brk |-> {t.id : t \in {w \in woodToDamage : w.type = WOOD_NORMAL}},
         credit |-> DestroyedCount(destroyedTypes),
         maxDelay |-> MaxRemovalDelay(ts, matchedPositions \ skipPositions, hitDelay),
         bc |-> bombCreations,
         matched |-> matchedPositions]

\* what a pass decided: the ids to remove, the ids of the wood to break
\* (WOOD_NORMAL -> WOOD_BROKEN), the types credited to the goals, the longest
\* removal delay, the bombs to create, and the matchedPositions it worked on
PassOf(ts, matchedPositions, woodToDamage, skipPositions, hitDelay, bombCreations) ==
    LET destroyed == {t \in TilesAt(ts, matchedPositions \ skipPositions) :
                            ~isWoodenTile(t.type) /\ ~isStoneTile(t.type)}
        broken == {t \in woodToDamage : t.type = WOOD_BROKEN}
        destroyedSeq == SeqOfSet({t.id : t \in destroyed})
        typeOfId(id) == (CHOOSE t \in destroyed : t.id = id).type
        destroyedTypes == [k \in DOMAIN destroyedSeq |-> typeOfId(destroyedSeq[k])]
                          \o [k \in 1 .. Cardinality(broken) |-> WOOD_NORMAL]
    IN  [rm |-> {t.id : t \in destroyed} \cup {t.id : t \in broken},
         brk |-> {t.id : t \in {w \in woodToDamage : w.type = WOOD_NORMAL}},
         credit |-> DestroyedCount(destroyedTypes),
         maxDelay |-> MaxRemovalDelay(ts, matchedPositions \ skipPositions, hitDelay),
         bc |-> bombCreations,
         matched |-> matchedPositions]

\* a blast that damages the wood next to its cells as well
BombBlastAndAdjacent(ts, rows, cols, bomb) ==
    LET hitDelay == collectBombPropagation(<<[bomb |-> bomb, delayMs |-> 0]>>,
                                           ts, rows, cols).positionHitDelayMs
        matchedPositions == DOMAIN hitDelay
        near == {q \in Cells(rows, cols) :
                    \E p \in matchedPositions : Abs(p[1] - q[1]) + Abs(p[2] - q[2]) <= 1}
        woodToDamage == {t \in TilesAt(ts, near) : isWoodenTile(t.type)}
    IN  PassOf(ts, matchedPositions, woodToDamage, {}, hitDelay, <<>>)

\* triggerBombAtPosition up to the marking of the tiles, and the body of the
\* loop over bombsToTrigger in handleSwap: only the wood at a blast position is
\* damaged
BombBlast(ts, rows, cols, bomb) ==
    LET hitDelay == collectBombPropagation(<<[bomb |-> bomb, delayMs |-> 0]>>,
                                           ts, rows, cols).positionHitDelayMs
        matchedPositions == DOMAIN hitDelay
        woodToDamage == {t \in TilesAt(ts, matchedPositions) : isWoodenTile(t.type)}
    IN  PassOf(ts, matchedPositions, woodToDamage, {}, hitDelay, <<>>)

(***************************************************************************)
(* One pass of processMatches up to the marking of the tiles               *)
(***************************************************************************)
\* a bomb always placed at the default cell
AlwaysDefault(positions, defaultPos, swap, isFirstIteration) == defaultPos

\* findBombPosition: the swap destination, else the swap origin, else the
\* default; swap is <<from, to>> or <<>>
findBombPosition(positions, defaultPos, swap, isFirstIteration) ==
    IF isFirstIteration /\ swap # <<>>
    THEN IF swap[2] \in Range(positions) THEN swap[2]
         ELSE IF swap[1] \in Range(positions) THEN swap[1]
         ELSE defaultPos
    ELSE defaultPos

\* no two matches are taken as one shape
NeverCombined(m1, m2) == FALSE

\* two matches of one type that cross and together span five cells or more
IsCombined(m1, m2) ==
    /\ m1.tileType = m2.tileType
    /\ m1.direction # m2.direction
    /\ LET hMatch == IF m1.direction = "horizontal" THEN m1 ELSE m2
           vMatch == IF m1.direction = "vertical" THEN m1 ELSE m2
       IN  /\ hMatch.startRow >= vMatch.startRow
           /\ hMatch.startRow <= vMatch.endRow
           /\ vMatch.startCol >= hMatch.startCol
           /\ vMatch.startCol <= hMatch.endCol
           /\ hMatch.matchLength + vMatch.matchLength - 1 >= 5

SharedPos(m1, m2) ==
    <<(IF m1.direction = "horizontal" THEN m1 ELSE m2).startRow,
      (IF m1.direction = "vertical" THEN m1 ELSE m2).startCol>>

\* every call of addBombCreation of a pass, with `key` giving the order of the
\* calls: the group of the type (in the order the types first appear), then
\* i, then j for the crossing pairs, and after them the single matches
BombRequests(matches, swap, isFirstIteration) ==
    LET n == Len(matches) + 1
        rank(ty) == SetMin({i \in DOMAIN matches : matches[i].tileType = ty})
        pairs == {pr \in (DOMAIN matches) \X (DOMAIN matches) :
                        pr[1] < pr[2] /\ IsCombined(matches[pr[1]], matches[pr[2]])}
        used == {pr[1] : pr \in pairs} \cup {pr[2] : pr \in pairs}
        len(k) == MaxOf(matches[k].matchLength, Len(matches[k].positions))
        centerPos(k) == matches[k].positions[(Len(matches[k].positions) \div 2) + 1]
    IN  {[key |-> rank(matches[pr[1]].tileType) * n * n + pr[1] * n + pr[2],
          position |-> findBombPosition(matches[pr[1]].positions \o matches[pr[2]].positions,
                                        SharedPos(matches[pr[1]], matches[pr[2]]),
                                        swap, isFirstIteration),
          bombType |-> BOMB_AREA] : pr \in pairs}
        \cup
        {[key |-> n * n * n + k,
          position |-> findBombPosition(matches[k].positions, centerPos(k), swap, isFirstIteration),
          bombType |-> IF len(k) >= 5 THEN BOMB_AREA
                       ELSE IF matches[k].direction = "horizontal" THEN BOMB_VERTICAL
                       ELSE BOMB_HORIZONTAL] :
            k \in {j \in (DOMAIN matches) \ used : len(j) >= 4}}

\* no match creates a bomb
NoBombCreations(matches, swap, isFirstIteration) == <<>>

\* bombCreations: of the calls for one position the first one counts
BombCreations(matches, swap, isFirstIteration) ==
    LET reqs == BombRequests(matches, swap, isFirstIteration)
        won == {r \in reqs : \A q \in reqs : q.position = r.position => r.key <= q.key}
        keys == SeqOfSet({r.key : r \in won})
    IN  [k \in DOMAIN keys |->
            LET r == CHOOSE q \in won : q.key = keys[k]
            IN  [position |-> r.position, bombType |-> r.bombType]]

RECURSIVE Flatten(_)
Flatten(ss) == IF ss = <<>> THEN <<>> ELSE Head(ss) \o Flatten(Tail(ss))

InGrid(p, rows, cols) == p[1] >= 0 /\ p[1] < rows /\ p[2] >= 0 /\ p[2] < cols

Neighbours(p) == {<<p[1] - 1, p[2]>>, <<p[1] + 1, p[2]>>, <<p[1], p[2] - 1>>, <<p[1], p[2] + 1>>}

MatchPass(ts, rows, cols, swap, isFirstIteration) ==
    LET matches == findMatches(ts, rows, cols)
        bombCreations == BombCreations(matches, swap, isFirstIteration)
        bombPositions == {bombCreations[k].position : k \in DOMAIN bombCreations}
        inMatches == Flatten([k \in DOMAIN matches |-> matches[k].positions])
        bombIdx == SelectSeqIdx(inMatches, LAMBDA k :
                        isBomb(getTileAt(ts, inMatches[k][1], inMatches[k][2]).type))
        initialBombs == [k \in DOMAIN bombIdx |->
                            [bomb |-> getTileAt(ts, inMatches[bombIdx[k]][1], inMatches[bombIdx[k]][2]),
                             delayMs |-> 0]]
        hitDelay == collectBombPropagation(initialBombs, ts, rows, cols).positionHitDelayMs
        matchedPositions == Range(inMatches) \cup DOMAIN hitDelay
        adjacent == {q \in UNION {Neighbours(p) : p \in matchedPositions} : InGrid(q, rows, cols)}
        woodToDamage == {t \in TilesAt(ts, adjacent \cup matchedPositions) : isWoodenTile(t.type)}
    IN  PassOf(ts, matchedPositions, woodToDamage, bombPositions, hitDelay, bombCreations)

\* the marking with damaged wood removed at once
MarkTilesWoodRemoved(prev, pass) ==
    [i \in DOMAIN prev |->
        IF prev[i].id \in pass.rm \cup pass.brk THEN [prev[i] EXCEPT !.rm = TRUE] ELSE prev[i]]

\* the setTiles that marks the tiles of a pass
MarkTiles(prev, pass) ==
    LET bombPositions == {pass.bc[k].position : k \in DOMAIN pass.bc}
    IN  [i \in DOMAIN prev |->
            IF <<prev[i].row, prev[i].col>> \in bombPositions THEN [prev[i] EXCEPT !.rm = FALSE]
            ELSE IF prev[i].id \in pass.rm THEN [prev[i] EXCEPT !.rm = TRUE]
            ELSE IF prev[i].id \in pass.brk THEN [prev[i] EXCEPT !.type = WOOD_BROKEN]
            ELSE prev[i]]

(***************************************************************************)
(* Removal, bomb creation and refill (the second setTiles of a pass)       *)
(***************************************************************************)
\* getSmartTileType: every type it can return; `exhausted` tells that only the
\* failure of all maxAttempts draws returns the type (each of them would match
\* and the roll against accidentalMatchesChance failed)
getSmartTileType(lv, currentTiles, targetRow, targetCol) ==
    LET tempGrid == tilesToGrid(currentTiles, lv.rows, lv.cols)
        wouldMatch(ty) == wouldCreateMatchComplete(tempGrid, lv.rows, lv.cols,
                                                   targetRow, targetCol, ty)
        types == Range(lv.availableTileTypes)
    IN  {[type |-> ty, exhausted |-> FALSE] :
            ty \in {x \in types : ~wouldMatch(x) \/ lv.accidentalMatchesChance > 0}}
        \cup
        {[type |-> ty, exhausted |-> TRUE] :
            ty \in {x \in types : wouldMatch(x) /\ lv.accidentalMatchesChance < 100}}

RECURSIVE CreateBombs(_, _, _, _)
\* bombCreations.forEach: the first tile of the list at the position becomes
\* the bomb; with no tile there a new bomb tile is created
CreateBombs(newTiles, bombCreations, k, nextId) ==
    IF k > Len(bombCreations) THEN [tiles |-> newTiles, nextId |-> nextId]
    ELSE LET position == bombCreations[k].position
             at == {i \in DOMAIN newTiles :
                        newTiles[i].row = position[1] /\ newTiles[i].col = position[2]}
         IN  IF at # {}
             THEN CreateBombs([newTiles EXCEPT ![SetMin(at)].type = bombCreations[k].bombType],
                              bombCreations, k + 1, nextId)
             ELSE CreateBombs(Append(newTiles, createTile(nextId, bombCreations[k].bombType,
                                                          position[1], position[2])),
                              bombCreations, k + 1, nextId + 1)

\* the tiles a column asks for: rows minus the tiles of the column
TilesNeeded(afterGravity, rows, col) ==
    rows - Cardinality({i \in DOMAIN afterGravity : afterGravity[i].col = col})

\* the new tiles of the refill in the order they are created: column by
\* column, each with the row it starts at and the row it will land on
RefillSlots(afterGravity, rows, cols) ==
    Flatten([c \in 1 .. cols |->
        LET col == c - 1
            tilesNeeded == TilesNeeded(afterGravity, rows, col)
            occupiedRows == {afterGravity[i].row : i \in {j \in DOMAIN afterGravity :
                                                            afterGravity[j].col = col}}
            emptyRows == SeqOfSet((0 .. rows - 1) \ occupiedRows)
        IN  IF tilesNeeded <= 0 THEN <<>>
            ELSE [i \in 1 .. tilesNeeded |->
                    [col |-> col, startRow |-> -(tilesNeeded - (i - 1)), finalRow |-> emptyRows[i]]]])

\* the draws the model follows: a draw loop runs out of attempts only where no
\* type is free of a match, or while fewer than MaxExhaustions loops have
\* run out (`used` counts them)
FollowedDraws(outcomes, used) ==
    {d \in outcomes :
        \/ ~d.exhausted
        \/ used < MaxExhaustions
        \/ \A e \in outcomes : e.exhausted}

RECURSIVE FillSlots(_, _, _, _, _, _, _)
\* the loop that creates the new tiles: every outcome of the draws
FillSlots(lv, newTiles, afterGravity, slots, k, nextId, used) ==
    IF k > Len(slots) THEN {[tiles |-> newTiles, nextId |-> nextId, exhaustions |-> used]}
    ELSE UNION {
            FillSlots(lv,
                      Append(newTiles, createTile(nextId, d.type, slots[k].startRow, slots[k].col)),
                      Append(afterGravity, createTile(nextId, d.type, slots[k].finalRow, slots[k].col)),
                      slots, k + 1, nextId + 1, used + (IF d.exhausted THEN 1 ELSE 0)) :
            d \in FollowedDraws(getSmartTileType(lv, afterGravity, slots[k].finalRow, slots[k].col),
                                used)}

\* how many new ids the removal of a pass asks for
IdsNeeded(lv, prev, rmIds, bombCreations, nextId) ==
    LET kept == SelectSeq(prev, LAMBDA t : t.id \notin rmIds)
        bombed == CreateBombs(kept, bombCreations, 1, nextId)
        afterGravity == applyGravity(bombed.tiles, lv.rows, lv.cols)
    IN  (bombed.nextId - nextId) + Len(RefillSlots(afterGravity, lv.rows, lv.cols))

\* every board the removal of a pass can leave
RemoveAndRefill(lv, prev, rmIds, bombCreations, nextId, used) ==
    LET kept == SelectSeq(prev, LAMBDA t : t.id \notin rmIds)
        bombed == CreateBombs(kept, bombCreations, 1, nextId)
        afterGravity == applyGravity(bombed.tiles, lv.rows, lv.cols)
    IN  FillSlots(lv, bombed.tiles, afterGravity,
                  RefillSlots(afterGravity, lv.rows, lv.cols), 1, bombed.nextId, used)

(***************************************************************************)
(* Levels and the board initializeGrid builds                              *)
(***************************************************************************)
Goal(tileType, count) == [tileType |-> tileType, count |-> count]

Level(rows, cols, types, goals, maxMoves, wood, stone) ==
    [rows |-> rows, cols |-> cols, availableTileTypes |-> types, goals |-> goals,
     maxMoves |-> maxMoves, woodenTilePositions |-> wood, stoneTilePositions |-> stone,
     accidentalMatchesChance |-> 0]

\* three rows, three types, one move
LevelSquare == Level(3, 3, <<0, 1, 2>>, <<Goal(0, 3)>>, 1, <<>>, <<>>)

\* two rows, two types, one move
LevelPlain == Level(2, 3, <<0, 1>>, <<Goal(0, 6)>>, 1, <<>>, <<>>)

\* a wooden tile in the lower row; the wood goal is added by the hook
LevelWood == Level(2, 3, <<0, 1>>, <<>>, 2, << <<1, 1>> >>, <<>>)

\* the same board with the wood goal declared by the level
LevelWoodGoal == Level(2, 3, <<0, 1>>, <<Goal(WOOD_NORMAL, 1)>>, 2, << <<1, 1>> >>, <<>>)

\* a lower row of three stones
LevelStone == Level(2, 3, <<0, 1>>, <<Goal(0, 3)>>, 2, <<>>, << <<1, 0>>, <<1, 1>>, <<1, 2>> >>)

\* a lower row of four stones
LevelStoneRow == Level(2, 4, <<0, 1>>, <<Goal(0, 3)>>, 2, <<>>,
                       << <<1, 0>>, <<1, 1>>, <<1, 2>>, <<1, 3>> >>)

\* one row, two types, three moves
LevelLine == Level(1, 4, <<0, 1>>, <<Goal(0, 6)>>, 3, <<>>, <<>>)

Levels == {LevelSquare, LevelPlain, LevelWood, LevelWoodGoal, LevelStone, LevelStoneRow, LevelLine}

\* the types initializeGrid may have drawn for the free cells of a level, in
\* raster order
Fills(lv) ==
    IF lv = LevelSquare THEN {<<0, 0, 1,  1, 2, 0,  2, 1, 2>>}
    ELSE IF lv = LevelPlain THEN {<<0, 0, 1,  1, 0, 0>>, <<0, 0, 1,  0, 0, 1>>}
    ELSE IF lv \in {LevelWood, LevelWoodGoal} THEN {<<0, 0, 1,  1, 0>>}
    ELSE IF lv = LevelStone THEN {<<0, 1, 0>>}
    ELSE IF lv = LevelStoneRow THEN {<<0, 1, 0, 1>>}
    ELSE IF lv = LevelLine THEN {<<0, 1, 0, 0>>}
    ELSE {}

ObstacleCells(lv) == Range(lv.woodenTilePositions) \cup Range(lv.stoneTilePositions)

\* the free cells in raster order
FreeCells(lv) ==
    LET idx == SelectSeqIdx([k \in 1 .. lv.rows * lv.cols |-> k],
                    LAMBDA k : <<(k - 1) \div lv.cols, (k - 1) % lv.cols>> \notin ObstacleCells(lv))
    IN  [k \in DOMAIN idx |-> <<(idx[k] - 1) \div lv.cols, (idx[k] - 1) % lv.cols>>]

\* the local `grid` of initializeGrid once every cell is visited: -1 at the
\* cells kept for wood and stone
GenerationGrid(lv, fill) ==
    [p \in Cells(lv.rows, lv.cols) |->
        IF p \in ObstacleCells(lv) THEN -1
        ELSE fill[CHOOSE k \in DOMAIN FreeCells(lv) : FreeCells(lv)[k] = p]]

\* the fill is one the do-while accepts without running out of attempts: no
\* draw completes a run with the two cells to its left or the two above
AcceptedFill(lv, fill) ==
    /\ Len(fill) = Len(FreeCells(lv))
    /\ \A k \in DOMAIN fill :
        /\ fill[k] \in Range(lv.availableTileTypes)
        /\ ~wouldCreateMatch(GenerationGrid(lv, fill), FreeCells(lv)[k][1], FreeCells(lv)[k][2], fill[k])

\* initializeGrid: the ordinary tiles in raster order, then the wood, then the
\* stone; ids count up from 0 (resetTileIdCounter)
initializeGrid(lv, fill) ==
    LET free == FreeCells(lv)
        nf == Len(free)
        nw == Len(lv.woodenTilePositions)
    IN  [k \in DOMAIN free |-> createTile(k - 1, fill[k], free[k][1], free[k][2])]
        \o [k \in DOMAIN lv.woodenTilePositions |->
                createTile(nf + k - 1, WOOD_NORMAL,
                           lv.woodenTilePositions[k][1], lv.woodenTilePositions[k][2])]
        \o [k \in DOMAIN lv.stoneTilePositions |->
                createTile(nf + nw + k - 1, STONE_TILE,
                           lv.stoneTilePositions[k][1], lv.stoneTilePositions[k][2])]

(***************************************************************************)
(* State                                                                   *)
(***************************************************************************)
VARIABLES
    level,                    \* the props of the hook
    tiles,                    \* useState: the list of tiles
    tileIdCounter,            \* the next id createTile hands out
    movesUsed,
    goalProgress,
    selectedTile,
    isAnimating,
    isComplete,
    isFailed,
    isReshuffling,
    goalsMetDuringAnimation,  \* useRef
    tasks,                    \* the pending timers, in the order they were set
    exhaustions,              \* history: how many draw loops have run out of attempts
    rejected,                 \* history: how many swaps that match nothing were animated
    fired,                    \* history: flips whenever a timer fires
    returned                  \* the last call of a function taken on its own: its name,
                              \* its arguments and the value it returned

vars == <<level, tiles, tileIdCounter, movesUsed, goalProgress, selectedTile, isAnimating,
          isComplete, isFailed, isReshuffling, goalsMetDuringAnimation, tasks, exhaustions,
          rejected, fired, returned>>

NoPos == <<-9, -9>>

\* no function has been called on its own
NoCall == [fn |-> "none", args |-> <<>>, value |-> <<>>]

\* a pending continuation: pc is the await it resumes from and due the time
\* left; rm, bc are the tilesToRemove and bombCreations of the running pass;
\* bombs the rest of bombsToTrigger; swap the swapPositions; ids and
\* idIsBomb the tile1/tile2 of handleSwap; first is isFirstIteration; seen
\* holds the isAnimating, isComplete and isFailed of the render whose
\* checkAndReshuffleIfNeeded the continuation will call; before is history:
\* the tiles, movesUsed and goalProgress at the time a swap that matches
\* nothing was asked; balance is history: the length of the tile list when
\* the handler was called, the sum of the counts of the `destroyed` records
\* updateGoalProgress has emitted for it since, and the number of tiles its
\* refills have created; blasts is history: the bombExplosionEvents of the
\* blasts of the handler, each with the tile of that id on the board then;
\* spawned is history: the new tiles of the last refill of the handler, each
\* with the finalRow and col its type was chosen for, and whether a draw loop
\* of that refill ran out of attempts
NewTask(pc, due) ==
    [pc |-> pc, due |-> due, rm |-> {}, bc |-> <<>>, bombs |-> <<>>, swap |-> <<>>,
     ids |-> <<>>, idIsBomb |-> <<>>, first |-> TRUE,
     seen |-> [isAnimating |-> isAnimating, isComplete |-> isComplete, isFailed |-> isFailed],
     before |-> <<>>,
     balance |-> [before |-> Len(tiles), destroyed |-> 0, refilled |-> 0],
     blasts |-> <<>>,
     spawned |-> [at |-> {}, exhausted |-> FALSE]]

Init ==
    /\ level \in Levels
    /\ \E fill \in Fills(level) :
        /\ AcceptedFill(level, fill)
        /\ tiles = initializeGrid(level, fill)
    /\ tileIdCounter = Len(tiles)
    /\ movesUsed = 0
    /\ goalProgress = [ty \in ProgressTypes |-> 0]
    /\ selectedTile = NoPos
    /\ isAnimating = FALSE
    /\ isComplete = FALSE
    /\ isFailed = FALSE
    /\ isReshuffling = FALSE
    /\ goalsMetDuringAnimation = FALSE
    /\ tasks = <<>>
    /\ exhaustions = 0
    /\ rejected = 0
    /\ fired = FALSE
    /\ returned = NoCall

(***************************************************************************)
(* Timers                                                                  *)
(***************************************************************************)
\* the timers left when timer i has fired: the time it waited has passed for
\* the others
Elapse(ts, i) == [k \in DOMAIN RemoveAt(ts, i) |-> [RemoveAt(ts, i)[k] EXCEPT !.due = @ - ts[i].due]]

\* the timer that fires next: the earliest, and of equally early ones the one
\* set first
IsNext(i) ==
    /\ i \in DOMAIN tasks
    /\ \A j \in DOMAIN tasks : tasks[i].due <= tasks[j].due
    /\ \A j \in DOMAIN tasks : tasks[j].due = tasks[i].due => i <= j

\* the failure useEffect: it runs again when movesUsed or isComplete changed;
\* its cleanup clears the pending timer, and it sets a new one when the moves
\* are used up and the level is not complete
FailureEffect(ts, newMovesUsed, newIsComplete) ==
    IF newMovesUsed = movesUsed /\ newIsComplete = isComplete THEN ts
    ELSE LET cleared == SelectSeq(ts, LAMBDA t : t.pc # "failTimer")
         IN  IF newMovesUsed >= level.maxMoves /\ ~newIsComplete
             THEN Append(cleared, NewTask("failTimer", FAIL_TIMER_DELAY))
             ELSE cleared

(***************************************************************************)
(* Steps shared by the handlers                                            *)
(***************************************************************************)
\* a move counted twice
countMoveTwice(prev) == prev + 2

\* the updater of setMovesUsed
countMove(prev) == prev + 1

\* the tiles tile1 and tile2 exchange places (setTiles mapping by id)
SwapById(prev, id1, id2, pos1, pos2) ==
    [i \in DOMAIN prev |->
        IF prev[i].id = id1 THEN [prev[i] EXCEPT !.row = pos1[1], !.col = pos1[2]]
        ELSE IF prev[i].id = id2 THEN [prev[i] EXCEPT !.row = pos2[1], !.col = pos2[2]]
        ELSE prev[i]]

\* a pass up to its first wait: updateGoalProgress and the marking setTiles;
\* t resumes at the removal
BeginPass(rest, t, pass) ==
    /\ tiles' = MarkTiles(tiles, pass)
    /\ LET updated == [ty \in ProgressTypes |-> goalProgress[ty] + pass.credit[ty]]
       IN  /\ goalProgress' = updated
           /\ goalsMetDuringAnimation' =
                    (goalsMetDuringAnimation \/ checkGoalsComplete(level, updated))
    /\ tasks' = Append(rest, [t EXCEPT !.pc = "remove",
                                       !.due = TILE_BREAK_FRAGMENT_SPAWN_DELAY
                                               + MaxOf(0, REMOVAL_DURATION
                                                          - TILE_BREAK_FRAGMENT_SPAWN_DELAY
                                                          + pass.maxDelay),
                                       !.rm = pass.rm, !.bc = pass.bc,
                                       !.balance.destroyed =
                                            @ + pass.credit[0] + pass.credit[1] + pass.credit[2]
                                              + pass.credit[WOOD_NORMAL]
                                              + pass.credit[WOOD_BROKEN]
                                              + pass.credit[STONE_TILE]])

\* checkAndReshuffleIfNeeded up to its first wait, called with the state
\* values `seen` of the render it was created in
NeedsReshuffle(seen, ts) ==
    /\ ~(seen.isComplete \/ seen.isFailed \/ seen.isAnimating)
    /\ ~hasValidMoves(ts, level.rows, level.cols)

\* the end of processMatches (no match left) and the direct call of
\* checkAndReshuffleIfNeeded that follows it in the handler
Finish(rest, t) ==
    LET reshuffle == NeedsReshuffle(t.seen, tiles)
        complete == isComplete \/ goalsMetDuringAnimation
        timer == [NewTask("checkTimer", CHECK_TIMER_DELAY) EXCEPT !.seen = t.seen]
        wait == [NewTask("reshuffle", RESHUFFLE_PAUSE) EXCEPT !.seen = t.seen]
    IN  /\ isComplete' = complete
        /\ goalsMetDuringAnimation' = FALSE
        /\ isAnimating' = reshuffle
        /\ isReshuffling' = (isReshuffling \/ reshuffle)
        /\ tasks' = FailureEffect(Append(rest, timer) \o (IF reshuffle THEN <<wait>> ELSE <<>>),
                                  movesUsed, complete)
        /\ UNCHANGED <<level, returned, tiles, tileIdCounter, movesUsed, goalProgress, selectedTile,
                       isFailed, exhaustions, rejected>>

\* one turn of the while loop of processMatches up to its first wait
Scan(rest, t) ==
    IF Len(findMatches(tiles, level.rows, level.cols)) = 0
    THEN Finish(rest, t)
    ELSE /\ BeginPass(rest, [t EXCEPT !.first = FALSE],
                      MatchPass(tiles, level.rows, level.cols, t.swap, t.first))
         /\ UNCHANGED <<level, returned, tileIdCounter, movesUsed, selectedTile, isAnimating,
                        isComplete, isFailed, isReshuffling, exhaustions, rejected>>

\* the bombExplosionEvents of the blast of `bomb`, each bomb with the tile of
\* its id that the board holds (a sequence of 0 or 1)
Detonations(ts, rows, cols, bomb) ==
    LET events == collectBombPropagation(<<[bomb |-> bomb, delayMs |-> 0]>>,
                                         ts, rows, cols).bombExplosionEvents
    IN  [k \in DOMAIN events |->
            [bomb |-> events[k].bomb,
             live |-> SelectSeq(ts, LAMBDA t : t.id = events[k].bomb.id /\ ~t.rm)]]

\* the blast of the next bomb of bombsToTrigger
Blast(rest, t) ==
    /\ BeginPass(rest, [t EXCEPT !.bombs = Tail(t.bombs),
                                 !.blasts = @ \o Detonations(tiles, level.rows, level.cols,
                                                             Head(t.bombs))],
                 BombBlast(tiles, level.rows, level.cols, Head(t.bombs)))
    /\ UNCHANGED <<level, returned, tileIdCounter, movesUsed, selectedTile, isAnimating,
                   isComplete, isFailed, isReshuffling, exhaustions, rejected>>

(***************************************************************************)
(* handleSwap                                                              *)
(***************************************************************************)
\* handleSwap(from, to) up to its first wait; newSelected is the selection the
\* caller leaves
SwapStep(from, to, newSelected) ==
    LET tile1 == getTileAt(tiles, from[1], from[2])
        tile2 == getTileAt(tiles, to[1], to[2])
        hasBomb == isBomb(tile1.type) \/ isBomb(tile2.type)
        swapped == SwapById(tiles, tile1.id, tile2.id, to, from)
    IN  /\ selectedTile' = newSelected
        /\ IF \/ isAnimating \/ isComplete \/ isFailed
              \/ tile1 = NoTile \/ tile2 = NoTile
              \/ isWoodenTile(tile1.type) \/ isWoodenTile(tile2.type)
              \/ isStoneTile(tile1.type) \/ isStoneTile(tile2.type)
           THEN UNCHANGED <<level, returned, tiles, tileIdCounter, movesUsed, goalProgress, isAnimating,
                            isComplete, isFailed, isReshuffling, goalsMetDuringAnimation,
                            tasks, exhaustions, rejected, fired>>
           ELSE IF ~hasBomb /\ ~isValidSwap(tiles, level.rows, level.cols, from, to)
           THEN /\ rejected < MaxInvalidSwaps
                /\ rejected' = rejected + 1
                /\ isAnimating' = TRUE
                /\ tiles' = swapped
                /\ tasks' = Append(tasks, [NewTask("invalidBack", INVALID_SWAP_DURATION)
                                    EXCEPT !.swap = IF tile1.id <= tile2.id THEN <<from, to>>
                                                    ELSE <<to, from>>,
                                           !.ids = IF tile1.id <= tile2.id THEN <<tile1.id, tile2.id>>
                                                   ELSE <<tile2.id, tile1.id>>,
                                           !.before = <<tiles, movesUsed, goalProgress>>])
                /\ UNCHANGED <<level, returned, tileIdCounter, movesUsed, goalProgress, isComplete,
                               isFailed, isReshuffling, goalsMetDuringAnimation, exhaustions,
                               fired>>
           ELSE /\ movesUsed' = countMove(movesUsed)
                /\ isAnimating' = TRUE
                /\ tiles' = swapped
                /\ tasks' = FailureEffect(
                                Append(tasks, [NewTask("settle", SWAP_SETTLE)
                                    EXCEPT !.swap = <<from, to>>, !.ids = <<tile1.id, tile2.id>>,
                                           !.idIsBomb = <<isBomb(tile1.type), isBomb(tile2.type)>>]),
                                countMove(movesUsed), isComplete)
                /\ UNCHANGED <<level, returned, tileIdCounter, goalProgress, isComplete, isFailed,
                               isReshuffling, goalsMetDuringAnimation, exhaustions, rejected,
                               fired>>

HandleSwap(from, to) == SwapStep(from, to, selectedTile)

\* the invalid swap: the tiles go back after INVALID_SWAP_DURATION (ids[1] to
\* swap[1] and ids[2] to swap[2]; the two are kept in the order of the ids,
\* which the two assignments do not depend on)
InvalidBack(i) ==
    /\ IsNext(i)
    /\ fired' = ~fired
    /\ tasks[i].pc = "invalidBack"
    /\ tiles' = SwapById(tiles, tasks[i].ids[1], tasks[i].ids[2], tasks[i].swap[1], tasks[i].swap[2])
    /\ tasks' = Append(Elapse(tasks, i), [NewTask("invalidEnd", INVALID_SWAP_DURATION)
                                            EXCEPT !.before = tasks[i].before])
    /\ UNCHANGED <<level, returned, tileIdCounter, movesUsed, goalProgress, selectedTile, isAnimating,
                   isComplete, isFailed, isReshuffling, goalsMetDuringAnimation, exhaustions, rejected>>

InvalidEnd(i) ==
    /\ IsNext(i)
    /\ fired' = ~fired
    /\ tasks[i].pc = "invalidEnd"
    /\ isAnimating' = FALSE
    /\ tasks' = Elapse(tasks, i)
    /\ UNCHANGED <<level, returned, tiles, tileIdCounter, movesUsed, goalProgress, selectedTile,
                   isComplete, isFailed, isReshuffling, goalsMetDuringAnimation, exhaustions, rejected>>

\* the tile of the list with the id (Array.find), as a sequence of 0 or 1
FindById(ts, id) ==
    LET at == {i \in DOMAIN ts : ts[i].id = id}
    IN  IF at = {} THEN <<>> ELSE <<ts[SetMin(at)]>>

\* the accepted swap after SWAP_SETTLE: the bombs moved by the swap blast one
\* after the other, and then processMatches runs
Settle(i) ==
    LET t == tasks[i]
        bombsToTrigger == (IF t.idIsBomb[1] THEN FindById(tiles, t.ids[1]) ELSE <<>>)
                          \o (IF t.idIsBomb[2] THEN FindById(tiles, t.ids[2]) ELSE <<>>)
    IN  /\ IsNext(i)
        /\ fired' = ~fired
        /\ t.pc = "settle"
        /\ IF bombsToTrigger # <<>>
           THEN Blast(Elapse(tasks, i), [t EXCEPT !.bombs = bombsToTrigger])
           ELSE Scan(Elapse(tasks, i), t)

(***************************************************************************)
(* The rest of a pass: removal and refill, gravity, settling               *)
(***************************************************************************)
\* after the removal wait: the marked tiles leave the list, the bombs of the
\* pass are created and the columns are refilled above the grid
Remove(i) ==
    /\ IsNext(i)
    /\ fired' = ~fired
    /\ tasks[i].pc = "remove"
    /\ tileIdCounter + IdsNeeded(level, tiles, tasks[i].rm, tasks[i].bc, tileIdCounter) <= MaxTileId + 1
    /\ \E r \in RemoveAndRefill(level, tiles, tasks[i].rm, tasks[i].bc, tileIdCounter, exhaustions) :
        /\ tiles' = r.tiles
        /\ tileIdCounter' = r.nextId
        /\ exhaustions' = r.exhaustions
        /\ tasks' = Append(Elapse(tasks, i),
                           [tasks[i] EXCEPT
                                !.pc = "gravity", !.due = FRAME_DELAY, !.rm = {}, !.bc = <<>>,
                                !.spawned =
                                    LET kept == SelectSeq(tiles, LAMBDA t : t.id \notin tasks[i].rm)
                                        bombed == CreateBombs(kept, tasks[i].bc, 1, tileIdCounter)
                                        slots == RefillSlots(applyGravity(bombed.tiles, level.rows,
                                                                          level.cols),
                                                             level.rows, level.cols)
                                    IN  [at |-> {[id |-> bombed.nextId + k - 1,
                                                  row |-> slots[k].finalRow,
                                                  col |-> slots[k].col] : k \in DOMAIN slots},
                                         exhausted |-> r.exhaustions > exhaustions],
                                !.balance.refilled =
                                    @ + Cardinality({j \in DOMAIN r.tiles :
                                                        /\ r.tiles[j].id >= tileIdCounter
                                                        /\ ~isBomb(r.tiles[j].type)})])
    /\ UNCHANGED <<level, returned, movesUsed, goalProgress, selectedTile, isAnimating, isComplete,
                   isFailed, isReshuffling, goalsMetDuringAnimation, rejected>>

\* after the frame wait: setTiles(applyGravity)
Gravity(i) ==
    /\ IsNext(i)
    /\ fired' = ~fired
    /\ tasks[i].pc = "gravity"
    /\ tiles' = applyGravity(tiles, level.rows, level.cols)
    /\ tasks' = Append(Elapse(tasks, i), [tasks[i] EXCEPT !.pc = "settled", !.due = FALL_SETTLE])
    /\ UNCHANGED <<level, returned, tileIdCounter, movesUsed, goalProgress, selectedTile, isAnimating,
                   isComplete, isFailed, isReshuffling, goalsMetDuringAnimation, exhaustions, rejected>>

\* after FALL_SETTLE: the next bomb of handleSwap blasts, or the loop of
\* processMatches takes its next turn
Settled(i) ==
    /\ IsNext(i)
    /\ fired' = ~fired
    /\ tasks[i].pc = "settled"
    /\ IF tasks[i].bombs # <<>>
       THEN Blast(Elapse(tasks, i), tasks[i])
       ELSE Scan(Elapse(tasks, i), tasks[i])

(***************************************************************************)
(* checkAndReshuffleIfNeeded                                               *)
(***************************************************************************)
\* the timer processMatches sets when it ends
CheckTimer(i) ==
    /\ IsNext(i)
    /\ fired' = ~fired
    /\ tasks[i].pc = "checkTimer"
    /\ IF NeedsReshuffle(tasks[i].seen, tiles)
       THEN /\ isReshuffling' = TRUE
            /\ isAnimating' = TRUE
            /\ tasks' = Append(Elapse(tasks, i),
                               [tasks[i] EXCEPT !.pc = "reshuffle", !.due = RESHUFFLE_PAUSE])
       ELSE /\ tasks' = Elapse(tasks, i)
            /\ UNCHANGED <<isReshuffling, isAnimating>>
    /\ UNCHANGED <<level, returned, tiles, tileIdCounter, movesUsed, goalProgress, selectedTile,
                   isComplete, isFailed, goalsMetDuringAnimation, exhaustions, rejected>>

\* after the pause: setTiles(reshuffleTiles)
Reshuffle(i) ==
    /\ IsNext(i)
    /\ fired' = ~fired
    /\ tasks[i].pc = "reshuffle"
    /\ \E r \in FollowedDraws(ReshuffleOutcomes(tiles, level.rows, level.cols,
                                                BoundedDraws(tiles, level.availableTileTypes)),
                              exhaustions) :
        /\ tiles' = r.tiles
        /\ exhaustions' = exhaustions + (IF r.exhausted THEN 1 ELSE 0)
    /\ tasks' = Append(Elapse(tasks, i),
                       [tasks[i] EXCEPT !.pc = "reshuffleEnd", !.due = RESHUFFLE_ANIMATION])
    /\ UNCHANGED <<level, returned, tileIdCounter, movesUsed, goalProgress, selectedTile, isAnimating,
                   isComplete, isFailed, isReshuffling, goalsMetDuringAnimation, rejected>>

ReshuffleEnd(i) ==
    /\ IsNext(i)
    /\ fired' = ~fired
    /\ tasks[i].pc = "reshuffleEnd"
    /\ isReshuffling' = FALSE
    /\ isAnimating' = FALSE
    /\ tasks' = Elapse(tasks, i)
    /\ UNCHANGED <<level, returned, tiles, tileIdCounter, movesUsed, goalProgress, selectedTile,
                   isComplete, isFailed, goalsMetDuringAnimation, exhaustions, rejected>>

(***************************************************************************)
(* The failure timer                                                       *)
(***************************************************************************)
FailTimer(i) ==
    /\ IsNext(i)
    /\ fired' = ~fired
    /\ tasks[i].pc = "failTimer"
    /\ isFailed' = (isFailed \/ ~checkGoalsComplete(level, goalProgress))
    /\ tasks' = Elapse(tasks, i)
    /\ UNCHANGED <<level, returned, tiles, tileIdCounter, movesUsed, goalProgress, selectedTile,
                   isAnimating, isComplete, isReshuffling, goalsMetDuringAnimation, exhaustions, rejected>>

(***************************************************************************)
(* handleTileClick                                                         *)
(***************************************************************************)
HandleTileClick(row, col) ==
    LET clickedTile == getTileAt(tiles, row, col)
        clickedPos == <<row, col>>
        same == <<level, returned, tiles, tileIdCounter, movesUsed, goalProgress, isAnimating, isComplete,
                  isFailed, isReshuffling, goalsMetDuringAnimation, tasks, exhaustions, rejected,
                  fired>>
    IN  IF isAnimating \/ isComplete \/ isFailed
        THEN UNCHANGED vars
        ELSE IF isWoodenTile(clickedTile.type) \/ isStoneTile(clickedTile.type)
        THEN selectedTile' = NoPos /\ UNCHANGED same
        ELSE IF isBomb(clickedTile.type) /\ (selectedTile = NoPos \/ selectedTile = clickedPos)
        THEN \* triggerBombAtPosition up to its first wait
             /\ selectedTile' = NoPos
             /\ movesUsed' = countMove(movesUsed)
             /\ isAnimating' = TRUE
             /\ BeginPass(FailureEffect(tasks, countMove(movesUsed), isComplete),
                          [NewTask("remove", 0) EXCEPT
                                !.blasts = Detonations(tiles, level.rows, level.cols,
                                                       clickedTile)],
                          BombBlast(tiles, level.rows, level.cols, clickedTile))
             /\ UNCHANGED <<level, returned, tileIdCounter, isComplete, isFailed, isReshuffling, exhaustions,
                            rejected, fired>>
        ELSE IF selectedTile = clickedPos
        THEN selectedTile' = NoPos /\ UNCHANGED same
        ELSE IF selectedTile = NoPos
        THEN selectedTile' = clickedPos /\ UNCHANGED same
        ELSE IF \/ (Abs(selectedTile[1] - row) = 1 /\ selectedTile[2] = col)
                \/ (Abs(selectedTile[2] - col) = 1 /\ selectedTile[1] = row)
        THEN SwapStep(selectedTile, clickedPos, NoPos)
        ELSE selectedTile' = clickedPos /\ UNCHANGED same

(***************************************************************************)
(* Specification                                                           *)
(***************************************************************************)
\* the positions a caller can name: the cells, and one place with no tile
Places == Cells(level.rows, level.cols) \cup {<<level.rows, 0>>}

\* the swaps asked of handleSwap directly (a drag); a drag does not start
\* while a tile is selected
SwapRequests ==
    {pr \in Places \X Places :
        /\ pr[1] # pr[2]
        /\ (pr[1][1] = pr[2][1] \/ pr[1][2] = pr[2][2])
        /\ Abs(pr[1][1] - pr[2][1]) + Abs(pr[1][2] - pr[2][2]) <= MaxReach}

\* no timer is due at this very instant: the player's events come between
\* instants at which timers fire, not between two timers of one instant
Quiet == \A i \in DOMAIN tasks : tasks[i].due > 0

\* the clicks asked of handleTileClick: a bomb is tapped at any time, another
\* tile only when no timer is pending
ClickAsked(p) == tasks = <<>> \/ isBomb(getTileAt(tiles, p[1], p[2]).type)

Next ==
    \/ \E pr \in SwapRequests : Quiet /\ selectedTile = NoPos /\ HandleSwap(pr[1], pr[2])
    \/ \E p \in Places : Quiet /\ ClickAsked(p) /\ HandleTileClick(p[1], p[2])
    \/ \E i \in DOMAIN tasks : InvalidBack(i)
    \/ \E i \in DOMAIN tasks : InvalidEnd(i)
    \/ \E i \in DOMAIN tasks : Settle(i)
    \/ \E i \in DOMAIN tasks : Remove(i)
    \/ \E i \in DOMAIN tasks : Gravity(i)
    \/ \E i \in DOMAIN tasks : Settled(i)
    \/ \E i \in DOMAIN tasks : CheckTimer(i)
    \/ \E i \in DOMAIN tasks : Reshuffle(i)
    \/ \E i \in DOMAIN tasks : ReshuffleEnd(i)
    \/ \E i \in DOMAIN tasks : FailTimer(i)

Spec == Init /\ [][Next]_vars

\* a timer fires: the steps that flip `fired` are the timers' steps
TimerFires ==
    /\ tasks # <<>>
    /\ fired' = ~fired

\* the event loop runs the callback of every setTimeout: while a timer is
\* pending, timers keep firing (a run that stops with a timer pending, as the
\* model does when it has no id left for a refill, is not a run of the
\* program)
FairSpec == Spec /\ WF_fired(TimerFires)

(***************************************************************************)
(* Properties                                                              *)
(***************************************************************************)
\* the awaits of a resolution: of the blast loop of handleSwap, of
\* triggerBombAtPosition and of processMatches
ResolutionSteps == {"settle", "remove", "gravity", "settled"}

\* the resolutions that are running
Loops == {i \in DOMAIN tasks : tasks[i].pc \in ResolutionSteps}

\* the reshuffles that are running
Reshuffles == {i \in DOMAIN tasks : tasks[i].pc \in {"reshuffle", "reshuffleEnd"}}

\* the sum of goalProgress over the ordinary types
OrdinaryProgress == goalProgress[0] + goalProgress[1] + goalProgress[2]

\* C1: isFailed is set only by a step taken when no resolution is running,
\* the moves are used up and the goals are not satisfied; and the level is
\* never failed while the goals are satisfied.
C1_FailedOnlyAtQuiescence ==
    [][/\ (~isFailed /\ isFailed') =>
            /\ Loops = {}
            /\ movesUsed >= level.maxMoves
            /\ ~checkGoalsComplete(level, goalProgress)
       /\ isFailed' => ~checkGoalsComplete(level, goalProgress')]_vars

\* C2: the step that sets isComplete leaves no resolution running: the level
\* is not completed while a cascade is in flight.
C2_CompleteOnlyAtQuiescence ==
    [][(~isComplete /\ isComplete') => Loops' = {}]_vars

\* C3: movesUsed goes up by exactly 1 in the step that begins a resolution
\* (an accepted swap or tap) and is left alone by every other step, whatever
\* passes, blasts and reshuffles follow.
C3_MoveCountedOnce ==
    [][movesUsed' = movesUsed + (IF Cardinality(Loops') > Cardinality(Loops) THEN 1 ELSE 0)]_vars

\* C3 witness: one move has been counted, its resolution has removed tiles in
\* two passes at least, and nothing is pending
C3_CascadeOfOneMove ==
    /\ movesUsed = 1
    /\ OrdinaryProgress >= 6
    /\ tasks = <<>>

\* handleSwap turns the request down before it touches a tile: a place with
\* no tile, or a wooden or stone tile
TurnedDown(from, to) ==
    LET tile1 == getTileAt(tiles, from[1], from[2])
        tile2 == getTileAt(tiles, to[1], to[2])
    IN  \/ tile1 = NoTile \/ tile2 = NoTile
        \/ isWoodenTile(tile1.type) \/ isWoodenTile(tile2.type)
        \/ isStoneTile(tile1.type) \/ isStoneTile(tile2.type)

\* C4: a swap turned down at once changes nothing, and when the handler of a
\* swap that matches nothing returns (the tiles have gone back), the tiles,
\* movesUsed and goalProgress are what they were when the swap was asked.
C4_RejectedSwapLeavesState ==
    [][/\ \A pr \in SwapRequests :
            (TurnedDown(pr[1], pr[2]) /\ HandleSwap(pr[1], pr[2]))
                => UNCHANGED <<tiles, movesUsed, goalProgress, tasks>>
       /\ \A i \in DOMAIN tasks :
            InvalidEnd(i) => <<tiles', movesUsed', goalProgress'>> = tasks[i].before]_vars

\* a request of the player: a swap or a click
Request ==
    \/ \E pr \in SwapRequests : HandleSwap(pr[1], pr[2])
    \/ \E p \in Places : HandleTileClick(p[1], p[2])

\* C5: a request made while a resolution or a reshuffle is running, or when
\* the level is complete or failed, changes neither tiles, movesUsed nor
\* goalProgress; and no more than one resolution runs at a time.
C5_NoOverlap ==
    [][/\ ((Loops # {} \/ Reshuffles # {} \/ isComplete \/ isFailed) /\ Request)
            => UNCHANGED <<tiles, movesUsed, goalProgress>>
       /\ Cardinality(Loops') <= 1]_vars

\* C6: handleSwap asked for two places that are not adjacent changes neither
\* tiles, movesUsed nor goalProgress.
C6_NonAdjacentRejected ==
    [][\A pr \in SwapRequests :
            (~areAdjacent(pr[1], pr[2]) /\ HandleSwap(pr[1], pr[2]))
                => UNCHANGED <<tiles, movesUsed, goalProgress>>]_vars

\* C7: with nothing pending and the level neither complete nor failed, the
\* board has a valid move.
C7_NoMovelessRest ==
    (tasks = <<>> /\ ~isComplete /\ ~isFailed) => hasValidMoves(tiles, level.rows, level.cols)

\* C8: whenever a resolution is running, later none is: every resolution
\* reaches a scan that finds no match.
C8_ResolutionQuiesces == (Loops # {}) ~> (Loops = {})

\* the id initializeGrid gives the stone of stoneTilePositions[k]
StoneId(k) == Len(FreeCells(level)) + Len(level.woodenTilePositions) + k - 1

\* C9: every stone tile of the level is in the list with its id, type and
\* place, not marked for removal, and nothing is credited to the stone type.
C9_StoneImmune ==
    /\ \A k \in DOMAIN level.stoneTilePositions :
            \E i \in DOMAIN tiles :
                /\ tiles[i].id = StoneId(k)
                /\ tiles[i].type = STONE_TILE
                /\ <<tiles[i].row, tiles[i].col>> = level.stoneTilePositions[k]
                /\ ~tiles[i].rm
    /\ goalProgress[STONE_TILE] = 0

\* the ids of the tiles of a type that are not marked for removal
LiveIdsOf(ts, type) == {ts[i].id : i \in {j \in DOMAIN ts : ts[j].type = type /\ ~ts[j].rm}}

\* C10: in every step a wooden-normal tile stays where it is, unmarked, as
\* wooden-normal or wooden-broken; a wooden-broken tile stays wooden-broken
\* until it leaves the list; the step credits WOOD_NORMAL with exactly 1 for
\* each wooden-broken tile it marks for removal, and WOOD_BROKEN with nothing.
C10_WoodTwoStages ==
    [][/\ \A id \in LiveIdsOf(tiles, WOOD_NORMAL) :
            /\ FindById(tiles', id) # <<>>
            /\ FindById(tiles', id)[1].type \in {WOOD_NORMAL, WOOD_BROKEN}
            /\ [FindById(tiles', id)[1] EXCEPT !.type = WOOD_NORMAL] = FindById(tiles, id)[1]
       /\ \A id \in LiveIdsOf(tiles, WOOD_BROKEN) :
            /\ FindById(tiles', id) # <<>>
            /\ [FindById(tiles', id)[1] EXCEPT !.rm = FALSE] = FindById(tiles, id)[1]
       /\ goalProgress'[WOOD_NORMAL] = goalProgress[WOOD_NORMAL]
                + Cardinality(LiveIdsOf(tiles, WOOD_BROKEN) \ LiveIdsOf(tiles', WOOD_BROKEN))
       /\ goalProgress'[WOOD_BROKEN] = 0]_vars

\* C10 witness: the wooden tile of the level was broken by one pass and
\* removed by a later one, which credited it
C10_WoodRemoved ==
    /\ Len(level.woodenTilePositions) = 1
    /\ goalProgress[WOOD_NORMAL] = 1
    /\ ~\E i \in DOMAIN tiles : isWoodenTile(tiles[i].type)

(***************************************************************************)
(* Functions taken on their own                                            *)
(***************************************************************************)
\* the hook of level lv mounted with the tile list ts and nothing running
Mounted(lv, ts) ==
    /\ level = lv
    /\ tiles = ts
    /\ tileIdCounter = Len(ts)
    /\ movesUsed = 0
    /\ goalProgress = [ty \in ProgressTypes |-> 0]
    /\ selectedTile = NoPos
    /\ isAnimating = FALSE
    /\ isComplete = FALSE
    /\ isFailed = FALSE
    /\ isReshuffling = FALSE
    /\ goalsMetDuringAnimation = FALSE
    /\ tasks = <<>>
    /\ exhaustions = 0
    /\ rejected = 0
    /\ fired = FALSE
    /\ returned = NoCall

\* what a call of a function leaves alone besides the tile list
CallFrame ==
    UNCHANGED <<level, movesUsed, goalProgress, selectedTile, isAnimating, isComplete,
                isFailed, isReshuffling, goalsMetDuringAnimation, tasks, rejected, fired>>

(***************************************************************************)
(* initializeGrid on its own: every level of three types on a 3 x 3 grid   *)
(* with one of a few obstacle placements, and every sequence of draws      *)
(***************************************************************************)
\* the obstacle placements tried, as <<woodenTilePositions, stoneTilePositions>>
GenPlacements ==
    { << <<>>, <<>> >>,
      << << <<1, 1>> >>, <<>> >>,
      << <<>>, << <<2, 0>>, <<2, 1>>, <<2, 2>> >> >>,
      << << <<1, 1>> >>, << <<0, 0>>, <<1, 0>> >> >>,
      << << <<0, 2>>, <<1, 2>>, <<2, 2>> >>, << <<1, 0>> >> >> }

GenLevels == {Level(3, 3, <<0, 1, 2>>, <<Goal(0, 3)>>, 1, pl[1], pl[2]) : pl \in GenPlacements}

\* the sequences of types the draws of initializeGrid may settle on, one per
\* free cell: a draw that completes a run is kept when the attempts run out
DrawnFills(lv) == [1 .. Len(FreeCells(lv)) -> Range(lv.availableTileTypes)]

\* the free cells whose do-while ran out of attempts: the type kept completes
\* a run with the two cells to the left or the two above
ExhaustedCells(lv, fill) ==
    {k \in DOMAIN fill :
        wouldCreateMatch(GenerationGrid(lv, fill), FreeCells(lv)[k][1], FreeCells(lv)[k][2], fill[k])}

\* the mount effect: initializeGrid builds the board of the level
InitializeGrid ==
    /\ returned = NoCall
    /\ \E fill \in DrawnFills(level) :
        /\ tiles' = initializeGrid(level, fill)
        /\ exhaustions' = Cardinality(ExhaustedCells(level, fill))
        /\ returned' = [fn |-> "initializeGrid", args |-> fill, value |-> tiles']
    /\ tileIdCounter' = Len(tiles')
    /\ CallFrame

\* before the mount effect has run the tile list is empty (useState([]))
GenInit == \E lv \in GenLevels : Mounted(lv, <<>>)

GenSpec == GenInit /\ [][InitializeGrid]_vars

\* C11: the board initializeGrid builds without running out of attempts has
\* no match, whatever the obstacle placement.
C11_NoInitialMatch ==
    (returned.fn = "initializeGrid" /\ exhaustions = 0)
        => findMatches(tiles, level.rows, level.cols) = <<>>

\* C12: whenever no resolution and no reshuffle is running, every cell of the
\* grid holds exactly one live tile, no live tile lies outside the grid and the
\* list holds rows x cols tiles.
C12_BoardFull ==
    (Loops = {} /\ Reshuffles = {}) =>
        /\ \A p \in Cells(level.rows, level.cols) :
            Cardinality({i \in DOMAIN tiles :
                            tiles[i].row = p[1] /\ tiles[i].col = p[2] /\ ~tiles[i].rm}) = 1
        /\ \A i \in DOMAIN tiles :
            ~tiles[i].rm => <<tiles[i].row, tiles[i].col>> \in Cells(level.rows, level.cols)
        /\ Len(tiles) = level.rows * level.cols

\* C13: when a pass of a resolution has settled, the counts emitted in the
\* tiles-destroyed events of the resolution so far plus the tiles on the board
\* equal the tiles on the board before it plus the tiles refilled during it.
C13_DestructionConserved ==
    \A i \in DOMAIN tasks :
        tasks[i].pc = "settled" =>
            tasks[i].balance.destroyed + Len(tiles)
                = tasks[i].balance.before + tasks[i].balance.refilled

(***************************************************************************)
(* applyGravity on its own: every list of a few tiles of a grid of three   *)
(* rows, the tiles being ordinary, bombs, wooden or stone, in the grid or  *)
(* above it, several to a cell or more to a column than it has rows        *)
(***************************************************************************)
\* the tile lists applyGravity is given for a grid of `cols` columns: ids
\* count up from 0 as createTile hands them out
GravityBoards(cols, maxLen) ==
    LET choices == {0, BOMB_AREA, WOOD_NORMAL, STONE_TILE} \X (-1 .. 2) \X (0 .. cols - 1)
    IN  {[k \in DOMAIN f |-> createTile(k - 1, f[k][1], f[k][2], f[k][3])] :
            f \in UNION {[1 .. n -> choices] : n \in 0 .. maxLen}}

GravityInit ==
    \E cols \in 1 .. 2 :
        \E ts \in GravityBoards(cols, MaxGravityTiles + 1 - cols) :
            Mounted(Level(3, cols, <<0, 1, 2>>, <<>>, 1, <<>>, <<>>), ts)

\* setTiles((prev) => applyGravity(prev, rows, cols))
ApplyGravity ==
    /\ returned = NoCall
    /\ tiles' = applyGravity(tiles, level.rows, level.cols)
    /\ returned' = [fn |-> "applyGravity", args |-> tiles, value |-> tiles']
    /\ UNCHANGED <<tileIdCounter, exhaustions>>
    /\ CallFrame

GravitySpec == GravityInit /\ [][ApplyGravity]_vars

\* C14: the positions applyGravity gives to the board it returned are the
\* positions that board has.
C14_GravityIdempotent ==
    returned.fn = "applyGravity" =>
        \A i \in DOMAIN tiles :
            applyGravity(tiles, level.rows, level.cols)[i].row = tiles[i].row
            /\ applyGravity(tiles, level.rows, level.cols)[i].col = tiles[i].col

\* the tiles of column col that applyGravity moves, and the rows of the grid
\* no wooden or stone tile of the column stands on
MovableIn(ts, col) ==
    {i \in DOMAIN ts : ts[i].col = col /\ ~isWoodenTile(ts[i].type) /\ ~isStoneTile(ts[i].type)}

FreeRows(ts, rows, col) ==
    {r \in 0 .. rows - 1 :
        ~\E i \in DOMAIN ts \ MovableIn(ts, col) : ts[i].col = col /\ ts[i].row = r}

\* C15: applyGravity returns every wooden and stone tile as it was, gives no
\* tile it moves the cell of a wooden or stone tile, and leaves no movable tile
\* on such a cell in a column that has a free row for each of its movable
\* tiles.
C15_ObstaclesStay ==
    returned.fn = "applyGravity" =>
        LET b == returned.args
            obstacles == {i \in DOMAIN b : isWoodenTile(b[i].type) \/ isStoneTile(b[i].type)}
            onObstacle(i) == \E j \in obstacles : tiles[j].row = tiles[i].row /\ tiles[j].col = tiles[i].col
        IN  /\ \A j \in obstacles : tiles[j] = b[j]
            /\ \A i \in DOMAIN b \ obstacles :
                /\ tiles[i].row # b[i].row => ~onObstacle(i)
                /\ Cardinality(MovableIn(b, b[i].col)) <= Cardinality(FreeRows(b, level.rows, b[i].col))
                        => ~onObstacle(i)

\* C15 witness: a tile that stood above a stone or wooden tile of its column
\* has come to rest below it.
C15_FellPastObstacle ==
    /\ returned.fn = "applyGravity"
    /\ \E i, j \in DOMAIN tiles :
        /\ isWoodenTile(tiles[j].type) \/ isStoneTile(tiles[j].type)
        /\ i \in MovableIn(tiles, tiles[j].col)
        /\ returned.args[i].row < tiles[j].row
        /\ tiles[i].row > tiles[j].row

\* C16: in a column with a free row for each of its k movable tiles, these
\* tiles come to stand on the k lowest free rows, one to a row, a tile that was
\* below another still below it; no tile changes column.
C16_GravityCompacts ==
    returned.fn = "applyGravity" =>
        LET b == returned.args
        IN  /\ \A i \in DOMAIN b : tiles[i].col = b[i].col
            /\ \A c \in 0 .. level.cols - 1 :
                LET mov == MovableIn(b, c)
                    free == FreeRows(b, level.rows, c)
                    k == Cardinality(mov)
                IN  k <= Cardinality(free) =>
                        /\ {tiles[i].row : i \in mov}
                                = {r \in free : Cardinality({q \in free : q > r}) < k}
                        /\ Cardinality({tiles[i].row : i \in mov}) = k
                        /\ \A i, j \in mov : b[i].row > b[j].row => tiles[i].row > tiles[j].row

\* C16 witness: two movable tiles of a column with an obstacle have fallen, the
\* lower one to the bottom row and the other one to the row above the obstacle.
C16_TwoFellAroundObstacle ==
    /\ returned.fn = "applyGravity"
    /\ \E i, j, o \in DOMAIN tiles :
        /\ isStoneTile(tiles[o].type) /\ tiles[o].row = 1 /\ tiles[o].col = 0
        /\ MovableIn(tiles, 0) = {i, j}
        /\ returned.args[i].row = 0 /\ returned.args[j].row = -1
        /\ tiles[i].row = 2 /\ tiles[j].row = 0

(***************************************************************************)
(* isValidSwap on its own: every board of two rows and three columns of    *)
(* two ordinary types and stone, and every pair of places                  *)
(***************************************************************************)
\* the boards of a grid with one tile to a cell, of the given types
FullBoards(rows, cols, types) ==
    LET lv == Level(rows, cols, <<0, 1, 2>>, <<>>, 1, <<>>, <<>>)
    IN  {initializeGrid(lv, f) : f \in [1 .. rows * cols -> types]}

SwapInit ==
    \E ts \in FullBoards(2, 3, {0, 1, STONE_TILE}) :
        Mounted(Level(2, 3, <<0, 1, 2>>, <<>>, 1, <<>>, <<>>), ts)

\* isValidSwap(tiles, from, to): the tile list is mapped to new objects, so the
\* list passed in is what it was
CallIsValidSwap ==
    /\ returned = NoCall
    /\ \E from, to \in Places :
        returned' = [fn |-> "isValidSwap", args |-> <<tiles, from, to>>,
                     value |-> isValidSwap(tiles, level.rows, level.cols, from, to)]
    /\ UNCHANGED <<tiles, tileIdCounter, exhaustions>>
    /\ CallFrame

SwapSpec == SwapInit /\ [][CallIsValidSwap]_vars

\* C17: isValidSwap(b, A, B) returns what isValidSwap(b, B, A) returns, and
\* the tile list after the call is the list that was passed.
C17_SwapValiditySymmetric ==
    returned.fn = "isValidSwap" =>
        /\ returned.value = isValidSwap(returned.args[1], level.rows, level.cols,
                                        returned.args[3], returned.args[2])
        /\ tiles = returned.args[1]

\* C17 witness: a swap of two different neighbouring tiles was found valid.
C17_ValidSwapFound ==
    /\ returned.fn = "isValidSwap"
    /\ returned.value
    /\ areAdjacent(returned.args[2], returned.args[3])
    /\ getTileAt(tiles, returned.args[2][1], returned.args[2][2]).type
            # getTileAt(tiles, returned.args[3][1], returned.args[3][2]).type
    /\ findMatches(tiles, level.rows, level.cols) = <<>>

(***************************************************************************)
(* The bomb functions on their own: every board of two rows and three      *)
(* columns whose tiles are ordinary tiles or bombs, and every board of six *)
(* rows and five columns that holds one bomb and nothing else              *)
(***************************************************************************)
BombInit ==
    \/ \E ts \in FullBoards(2, 3, {0, BOMB_VERTICAL, BOMB_HORIZONTAL, BOMB_AREA}) :
            Mounted(Level(2, 3, <<0, 1, 2>>, <<>>, 1, <<>>, <<>>), ts)
    \/ \E p \in Cells(6, 5), ty \in {BOMB_VERTICAL, BOMB_HORIZONTAL, BOMB_AREA} :
            Mounted(Level(6, 5, <<0, 1, 2>>, <<>>, 1, <<>>, <<>>), <<createTile(0, ty, p[1], p[2])>>)

\* collectBombPropagation(initialBombs, currentTiles): the callers pass one
\* bomb (a tap, a swapped bomb) or the bombs found at matched positions, all
\* with delay 0; a bomb may be listed twice
CallCollectBombPropagation ==
    /\ returned = NoCall
    /\ LET bombs == {i \in DOMAIN tiles : isBomb(tiles[i].type)}
       IN  \E initial \in {<<i>> : i \in bombs} \cup {<<i, j>> : i \in bombs, j \in bombs} :
            LET initialBombs == [k \in DOMAIN initial |-> [bomb |-> tiles[initial[k]], delayMs |-> 0]]
            IN  returned' = [fn |-> "collectBombPropagation", args |-> initialBombs,
                             value |-> collectBombPropagation(initialBombs, tiles,
                                                              level.rows, level.cols)]
    /\ UNCHANGED <<tiles, tileIdCounter, exhaustions>>
    /\ CallFrame

\* getBombExplosionPositions(tile, rows, cols) of a bomb of the board
CallGetBombExplosionPositions ==
    /\ returned = NoCall
    /\ \E i \in DOMAIN tiles :
        /\ isBomb(tiles[i].type)
        /\ returned' = [fn |-> "getBombExplosionPositions", args |-> tiles[i],
                        value |-> getBombExplosionPositions(tiles[i], level.rows, level.cols)]
    /\ UNCHANGED <<tiles, tileIdCounter, exhaustions>>
    /\ CallFrame

BombSpec == BombInit /\ [][CallCollectBombPropagation \/ CallGetBombExplosionPositions]_vars

\* C18: the bombs of bombExplosionEvents are listed in non-decreasing order of
\* delay and no bomb is listed twice; started from one directional bomb, of two
\* directional bombs on its line and on one side of it the nearer one has no
\* larger delay than the farther one.
C18_BombDelaysMonotone ==
    returned.fn = "collectBombPropagation" =>
        LET events == returned.value.bombExplosionEvents
            first == returned.args[1].bomb
            directional(b) == b.type \in {BOMB_VERTICAL, BOMB_HORIZONTAL}
            \* the signed distance from the first bomb along its line, or 0 off the line
            along(b) == IF first.type = BOMB_HORIZONTAL /\ b.row = first.row THEN b.col - first.col
                        ELSE IF first.type = BOMB_VERTICAL /\ b.col = first.col THEN b.row - first.row
                        ELSE 0
        IN  /\ \A k, l \in DOMAIN events : k < l => events[k].delayMs <= events[l].delayMs
            /\ \A k, l \in DOMAIN events : k # l => events[k].bomb.id # events[l].bomb.id
            /\ Len(returned.args) = 1 =>
                \A k, l \in DOMAIN events :
                    /\ directional(events[k].bomb) /\ directional(events[l].bomb)
                    /\ along(events[k].bomb) * along(events[l].bomb) > 0
                    /\ Abs(along(events[k].bomb)) <= Abs(along(events[l].bomb))
                    => events[k].delayMs <= events[l].delayMs

\* C18 witness: a row of three horizontal bombs started at its left end: the
\* bombs explode at 0, 70 and 140 ms.
C18_ChainAlongRow ==
    /\ returned.fn = "collectBombPropagation"
    /\ Len(returned.args) = 1
    /\ LET events == returned.value.bombExplosionEvents
       IN  /\ Len(events) = 3
           /\ \A k \in 1 .. 3 :
                /\ events[k].bomb.type = BOMB_HORIZONTAL
                /\ events[k].bomb.row = 0 /\ events[k].bomb.col = k - 1
                /\ events[k].delayMs = (k - 1) * DIRECTIONAL_BOMB_TILE_HIT_STEP_MS

\* C20: getBombExplosionPositions lists, each once, the cells of the bomb's
\* row (horizontal bomb), of its column (vertical bomb), or the cells of the
\* grid at most two rows and two columns away from it (area bomb): 25 cells
\* when the bomb is two cells or more from every edge.
C20_ExplosionPositions ==
    returned.fn = "getBombExplosionPositions" =>
        LET bomb == returned.args
            positions == returned.value
            cells == Cells(level.rows, level.cols)
        IN  /\ Range(positions) =
                    IF bomb.type = BOMB_HORIZONTAL THEN {p \in cells : p[1] = bomb.row}
                    ELSE IF bomb.type = BOMB_VERTICAL THEN {p \in cells : p[2] = bomb.col}
                    ELSE {p \in cells : Abs(p[1] - bomb.row) <= 2 /\ Abs(p[2] - bomb.col) <= 2}
            /\ Cardinality(Range(positions)) = Len(positions)
            /\ (/\ bomb.type = BOMB_AREA
                /\ bomb.row >= 2 /\ bomb.row <= level.rows - 3
                /\ bomb.col >= 2 /\ bomb.col <= level.cols - 3)
                    => Len(positions) = 25

\* C20 witness: the blast of an area bomb in a corner of the six by five grid
\* was clipped to nine cells.
C20_AreaBlastClipped ==
    /\ returned.fn = "getBombExplosionPositions"
    /\ returned.args.type = BOMB_AREA
    /\ returned.args.row = 0 /\ returned.args.col = 0
    /\ level.rows = 6
    /\ Len(returned.value) = 9

(***************************************************************************)
(* One pass of processMatches on its own: every board of one row or one    *)
(* column of five cells (ordinary, wooden, stone and bomb tiles), of three *)
(* rows                                                                    *)
(* and three columns, of two rows and four columns and of three rows and   *)
(* four columns (two ordinary types), with and without a swap having led   *)
(* to it, as the first turn of the loop and as a later one                 *)
(***************************************************************************)
MatchInit ==
    \/ \E dims \in {<<1, 5>>, <<5, 1>>} :
        \E ts \in FullBoards(dims[1], dims[2], {0, WOOD_NORMAL, STONE_TILE, BOMB_AREA}) :
            Mounted(Level(dims[1], dims[2], <<0, 1, 2>>, <<>>, 1, <<>>, <<>>), ts)
    \/ \E dims \in {<<3, 3>>, <<2, 4>>, <<3, 4>>} :
        \E ts \in FullBoards(dims[1], dims[2], {0, 1}) :
            Mounted(Level(dims[1], dims[2], <<0, 1, 2>>, <<>>, 1, <<>>, <<>>), ts)

\* one turn of the while loop of processMatches(swapPositions) up to the
\* marking of the tiles: what it found and decided
CallProcessMatches ==
    /\ returned = NoCall
    /\ \E swap \in {<<>>} \cup {pr \in Cells(level.rows, level.cols) \X Cells(level.rows, level.cols) :
                                    areAdjacent(pr[1], pr[2])} :
        \E isFirstIteration \in BOOLEAN :
            returned' = [fn |-> "processMatches",
                         args |-> [swap |-> swap, isFirstIteration |-> isFirstIteration],
                         value |-> MatchPass(tiles, level.rows, level.cols, swap,
                                             isFirstIteration)]
    /\ UNCHANGED <<tiles, tileIdCounter, exhaustions>>
    /\ CallFrame

\* findMatches(currentTiles), the first call of a turn of the loop
CallFindMatches ==
    /\ returned = NoCall
    /\ returned' = [fn |-> "findMatches", args |-> tiles,
                    value |-> findMatches(tiles, level.rows, level.cols)]
    /\ UNCHANGED <<tiles, tileIdCounter, exhaustions>>
    /\ CallFrame

MatchSpec == MatchInit /\ [][CallProcessMatches \/ CallFindMatches]_vars

\* C19: of the matches that cross no match of their type, one of length 3 has
\* no bomb created on its cells, one of length 4 has exactly one, a vertical
\* bomb for a horizontal match and a horizontal bomb for a vertical match, and
\* one of length 5 or more has exactly one, an area bomb.
C19_BombByLength ==
    returned.fn = "processMatches" =>
        LET matches == findMatches(tiles, level.rows, level.cols)
            bc == returned.value.bc
            consumed(k) == \E l \in DOMAIN matches : l # k /\ IsCombined(matches[k], matches[l])
            created(k) == {j \in DOMAIN bc : bc[j].position \in Range(matches[k].positions)}
            len(k) == MaxOf(matches[k].matchLength, Len(matches[k].positions))
        IN  \A k \in DOMAIN matches :
                ~consumed(k) =>
                    /\ len(k) = 3 => created(k) = {}
                    /\ len(k) = 4 =>
                        /\ Cardinality(created(k)) = 1
                        /\ \A j \in created(k) :
                            bc[j].bombType = IF matches[k].direction = "horizontal"
                                             THEN BOMB_VERTICAL ELSE BOMB_HORIZONTAL
                    /\ len(k) >= 5 =>
                        /\ Cardinality(created(k)) = 1
                        /\ \A j \in created(k) : bc[j].bombType = BOMB_AREA

\* C19 witness: a swap has completed a horizontal run of exactly four tiles
\* and the only bomb of the pass is a vertical bomb at the swap destination.
C19_FourInRowMakesVerticalBomb ==
    /\ returned.fn = "processMatches"
    /\ returned.args.swap # <<>>
    /\ returned.args.isFirstIteration
    /\ LET matches == findMatches(tiles, level.rows, level.cols)
       IN  /\ Len(matches) = 1
           /\ matches[1].direction = "horizontal"
           /\ matches[1].matchLength = 4
           /\ returned.args.swap[2] \in Range(matches[1].positions)
           /\ returned.value.bc = <<[position |-> returned.args.swap[2],
                                     bombType |-> BOMB_VERTICAL]>>

(***************************************************************************)
(* hasValidMoves and reshuffleTiles on their own: every full board of two  *)
(* rows and three columns of two ordinary types, a bomb, wood and stone,   *)
(* and every full board of three rows and two columns of two ordinary      *)
(* types and stone                                                         *)
(***************************************************************************)
MovesInit ==
    \/ \E ts \in FullBoards(2, 3, {0, 1, BOMB_VERTICAL, WOOD_NORMAL, STONE_TILE}) :
            Mounted(Level(2, 3, <<0, 1>>, <<>>, 1, <<>>, <<>>), ts)
    \/ \E ts \in FullBoards(3, 2, {0, 1, STONE_TILE}) :
            Mounted(Level(3, 2, <<0, 1>>, <<>>, 1, <<>>, <<>>), ts)

\* hasValidMoves(tiles, rows, cols): the grid it works on is a local copy
CallHasValidMoves ==
    /\ returned = NoCall
    /\ returned' = [fn |-> "hasValidMoves", args |-> tiles,
                    value |-> hasValidMoves(tiles, level.rows, level.cols)]
    /\ UNCHANGED <<tiles, tileIdCounter, exhaustions>>
    /\ CallFrame

\* setTiles(prev => reshuffleTiles(prev, rows, cols, availableTileTypes)): the
\* value keeps whether the returned assignment was accepted or is the last of
\* maxAttempts rejected ones
CallReshuffleTiles ==
    /\ returned = NoCall
    /\ \E o \in reshuffleTiles(tiles, level.rows, level.cols, level.availableTileTypes) :
        /\ tiles' = o.tiles
        /\ returned' = [fn |-> "reshuffleTiles", args |-> tiles, value |-> o]
    /\ UNCHANGED <<tileIdCounter, exhaustions>>
    /\ CallFrame

MovesSpec == MovesInit /\ [][CallHasValidMoves \/ CallReshuffleTiles]_vars

\* C21: hasValidMoves(board) is true exactly when the board holds a bomb tile
\* or two orthogonally adjacent ordinary tiles whose exchange leaves a
\* horizontal or vertical run of three or more equal ordinary tiles through
\* one of the two exchanged cells; the tile list is what it was after the
\* call, and so is the grid after each trial exchange.
C21_ValidMovesExact ==
    returned.fn = "hasValidMoves" =>
        LET b == returned.args
            rows == level.rows
            cols == level.cols
            typeAt(p) == getTileAt(b, p[1], p[2]).type
            ordinary(p) == typeAt(p) >= 0 /\ typeAt(p) < 100
            exchanged(p, q) ==
                [c \in Cells(rows, cols) |->
                    IF c = p THEN typeAt(q) ELSE IF c = q THEN typeAt(p) ELSE typeAt(c)]
            segments ==
                {{<<r, c>> : c \in lo .. hi} : r \in 0 .. rows - 1,
                                               lo \in 0 .. cols - 1, hi \in 0 .. cols - 1}
                \cup {{<<r, c>> : r \in lo .. hi} : c \in 0 .. cols - 1,
                                                    lo \in 0 .. rows - 1, hi \in 0 .. rows - 1}
            run(g, p) ==
                \E seg \in segments :
                    /\ p \in seg
                    /\ Cardinality(seg) >= 3
                    /\ \A c \in seg : g[c] = g[p]
            pairs == {pq \in Cells(rows, cols) \X Cells(rows, cols) :
                        areAdjacent(pq[1], pq[2])}
        IN  /\ returned.value =
                (\/ \E i \in DOMAIN b : isBomb(b[i].type)
                 \/ \E pq \in pairs :
                        /\ ordinary(pq[1])
                        /\ ordinary(pq[2])
                        /\ \/ run(exchanged(pq[1], pq[2]), pq[1])
                           \/ run(exchanged(pq[1], pq[2]), pq[2]))
            /\ tiles = b
            /\ \A pq \in pairs :
                    SwapAndSwapBack(tilesToGrid(b, rows, cols),
                                    pq[1][1], pq[1][2], pq[2][1], pq[2][2])
                        = tilesToGrid(b, rows, cols)

\* a board without bombs on which hasValidMoves found a move through the
\* second exchanged cell only
C21_MoveThroughSecondCell ==
    /\ returned.fn = "hasValidMoves"
    /\ returned.value
    /\ ~\E i \in DOMAIN tiles : isBomb(tiles[i].type)
    /\ LET grid == tilesToGrid(tiles, level.rows, level.cols)
       IN  \A p, q \in Cells(level.rows, level.cols) :
                (areAdjacent(p, q) /\ (p[1] < q[1] \/ p[2] < q[2])
                    /\ grid[p] \in {0, 1} /\ grid[q] \in {0, 1})
                => ~FirstCellOnly(grid, level.rows, level.cols, p[1], p[2], q[1], q[2])

\* C22: reshuffleTiles returns as many tiles as it was given, every tile with
\* the id, row and column it had; a bomb, wooden or stone tile keeps its type,
\* and an ordinary tile gets a type of availableTileTypes.
C22_ReshuffleFrame ==
    returned.fn = "reshuffleTiles" =>
        LET b == returned.args
            out == returned.value.tiles
        IN  /\ Len(out) = Len(b)
            /\ \A i \in DOMAIN b :
                  \E j \in DOMAIN out :
                    /\ out[j].id = b[i].id
                    /\ \A k \in DOMAIN out : out[k].id = b[i].id => k = j
                    /\ out[j].row = b[i].row
                    /\ out[j].col = b[i].col
                    /\ IF isBomb(b[i].type) \/ isWoodenTile(b[i].type) \/ isStoneTile(b[i].type)
                       THEN out[j].type = b[i].type
                       ELSE out[j].type \in Range(level.availableTileTypes)

\* a reshuffle of a board with a bomb, a wooden and a stone tile that changed
\* the type of an ordinary tile
C22_ReshuffledAroundObstacles ==
    /\ returned.fn = "reshuffleTiles"
    /\ {BOMB_VERTICAL, WOOD_NORMAL, STONE_TILE} \subseteq {returned.args[i].type : i \in DOMAIN returned.args}
    /\ \E i \in DOMAIN returned.args : \E j \in DOMAIN tiles :
            /\ tiles[j].id = returned.args[i].id
            /\ tiles[j].type # returned.args[i].type

NoStarBelowFirst(movesRemaining, starThresholds) ==
    IF movesRemaining >= starThresholds[3] THEN 3
    ELSE IF movesRemaining >= starThresholds[2] THEN 2
    ELSE IF movesRemaining >= starThresholds[1] THEN 1
    ELSE 0

\* starThresholds[0 .. 2] of the code are starThresholds[1 .. 3] here
getStarsForMoves(movesRemaining, starThresholds) ==
    IF movesRemaining >= starThresholds[3] THEN 3
    ELSE IF movesRemaining >= starThresholds[2] THEN 2
    ELSE IF movesRemaining >= starThresholds[1] THEN 1
    ELSE 1

\* the moves remaining and the thresholds of the calls followed
MaxStarMoves == 6
MaxStarThreshold == 5

CallGetStarsForMoves ==
    /\ returned = NoCall
    /\ \E movesRemaining \in -1 .. MaxStarMoves,
          starThresholds \in [1 .. 3 -> 0 .. MaxStarThreshold] :
        returned' = [fn |-> "getStarsForMoves", args |-> <<movesRemaining, starThresholds>>,
                     value |-> getStarsForMoves(movesRemaining, starThresholds)]
    /\ UNCHANGED <<tiles, tileIdCounter, exhaustions>>
    /\ CallFrame

StarsSpec == Mounted(LevelPlain, <<>>) /\ [][CallGetStarsForMoves]_vars

\* C24: getStarsForMoves(m, [t1, t2, t3]) is 3 if m >= t3, else 2 if m >= t2,
\* else 1; it is always 1, 2 or 3, and with t1 <= t2 <= t3 no larger m gets
\* fewer stars.
C24_StarsByThreshold ==
    returned.fn = "getStarsForMoves" =>
        LET m == returned.args[1]
            t == returned.args[2]
        IN  /\ returned.value = (IF m >= t[3] THEN 3 ELSE IF m >= t[2] THEN 2 ELSE 1)
            /\ returned.value \in {1, 2, 3}
            /\ (t[1] <= t[2] /\ t[2] <= t[3])
                => \A m2 \in -1 .. MaxStarMoves :
                      m2 >= m => getStarsForMoves(m2, t) >= returned.value

\* a call below the first of three ascending thresholds, which gets one star
C24_OneStarBelowFirstThreshold ==
    /\ returned.fn = "getStarsForMoves"
    /\ returned.args[2][1] < returned.args[2][2]
    /\ returned.args[2][2] < returned.args[2][3]
    /\ returned.args[1] < returned.args[2][1]
    /\ returned.value = 1

(***************************************************************************)
(* Bombs triggered by the player: the hook mounted on a board of two rows  *)
(* and two columns that holds bombs                                        *)
(***************************************************************************)
BlastInit ==
    \E ts \in FullBoards(2, 2, {0, BOMB_HORIZONTAL, BOMB_AREA}) :
        Mounted(Level(2, 2, <<0, 1>>, <<Goal(0, 6)>>, 2, <<>>, <<>>), ts)

BlastSpec == BlastInit /\ [][Next]_vars

\* C25: in a tap on a bomb or a swap of one or two bombs, every bomb that
\* detonates does so from the cell it is at, no bomb detonates twice in the
\* action, and when the blasts of the action have settled no bomb that
\* detonated is on the board.
C25_BombsDetonateOnce ==
    \A i \in DOMAIN tasks :
        LET b == tasks[i].blasts
        IN  /\ \A k \in DOMAIN b :
                /\ b[k].live # <<>>
                /\ <<b[k].live[1].row, b[k].live[1].col>> = <<b[k].bomb.row, b[k].bomb.col>>
            /\ \A k, l \in DOMAIN b : b[k].bomb.id = b[l].bomb.id => k = l
            /\ (tasks[i].pc = "settled" /\ tasks[i].bombs = <<>>)
                => \A k \in DOMAIN b : \A j \in DOMAIN tiles : tiles[j].id # b[k].bomb.id

(***************************************************************************)
(* The pass of processMatches on its own (MatchSpec): crossing matches,    *)
(* removal and credit, the place of a created bomb                         *)
(***************************************************************************)
\* C26: when a horizontal and a vertical match of one tile type share a cell,
\* the pass creates an area bomb on a cell of the pair, the bombs created on
\* the cells of crossing matches are area bombs and are no more than the
\* crossing pairs, and every cell of the two matches is in the matched set.
C26_CrossingMakesAreaBomb ==
    returned.fn = "processMatches" =>
        LET matches == findMatches(tiles, level.rows, level.cols)
            bc == returned.value.bc
            cells(k) == Range(matches[k].positions)
            crossing == {pr \in (DOMAIN matches) \X (DOMAIN matches) :
                            /\ matches[pr[1]].direction = "horizontal"
                            /\ matches[pr[2]].direction = "vertical"
                            /\ matches[pr[1]].tileType = matches[pr[2]].tileType
                            /\ cells(pr[1]) \cap cells(pr[2]) # {}}
            crossed == UNION {cells(pr[1]) \cup cells(pr[2]) : pr \in crossing}
            onCrossed == {j \in DOMAIN bc : bc[j].position \in crossed}
        IN  /\ \A pr \in crossing :
                /\ \E j \in DOMAIN bc :
                    /\ bc[j].bombType = BOMB_AREA
                    /\ bc[j].position \in cells(pr[1]) \cup cells(pr[2])
                /\ cells(pr[1]) \cup cells(pr[2]) \subseteq returned.value.matched
            /\ \A j \in onCrossed : bc[j].bombType = BOMB_AREA
            /\ Cardinality(onCrossed) <= Cardinality(crossing)

\* a horizontal match of four tiles crossed by a vertical match, away from
\* its midpoint, with one bomb as the outcome of the pass
C26_FourCrossedMakesOneBomb ==
    /\ returned.fn = "processMatches"
    /\ returned.args.swap = <<>>
    /\ Len(returned.value.bc) = 1
    /\ LET matches == findMatches(tiles, level.rows, level.cols)
       IN  /\ Len(matches) = 2
           /\ matches[1].matchLength = 4
           /\ matches[2].direction = "vertical"
           /\ matches[2].tileType = matches[1].tileType
           /\ matches[2].startCol # matches[1].positions[3][2]

\* C27: in a match pass the tile at a cell where a bomb is created is neither
\* removed nor credited; every other ordinary tile at a matched position is
\* removed and adds exactly 1 to the count credited to its type, so that a
\* match of four credits three; the credits of a pass are as many as the
\* tiles it removes that are not bombs.
C27_BombCellKeptOthersCredited ==
    returned.fn = "processMatches" =>
        LET pass == returned.value
            bombCells == {pass.bc[j].position : j \in DOMAIN pass.bc}
            tileAt(p) == getTileAt(tiles, p[1], p[2])
            ordinary(t) == t.type >= 0 /\ t.type < 100
            removedOrdinary == {t \in Range(tiles) : ordinary(t) /\ t.id \in pass.rm}
        IN  /\ \A p \in bombCells : tileAt(p).id \notin pass.rm
            /\ \A p \in pass.matched \ bombCells :
                    (tileAt(p) # NoTile /\ ordinary(tileAt(p))) => tileAt(p).id \in pass.rm
            /\ \A t \in removedOrdinary : <<t.row, t.col>> \in pass.matched \ bombCells
            /\ \A ty \in 0 .. 2 :
                    pass.credit[ty] = Cardinality({t \in removedOrdinary : t.type = ty})
            /\ pass.credit[0] + pass.credit[1] + pass.credit[2] + pass.credit[WOOD_NORMAL]
                    + pass.credit[WOOD_BROKEN] + pass.credit[STONE_TILE]
                = Cardinality({t \in Range(tiles) : t.id \in pass.rm /\ ~isBomb(t.type)})

\* a lone match of four tiles: three tiles removed and three credited
C27_FourMatchCreditsThree ==
    /\ returned.fn = "processMatches"
    /\ LET matches == findMatches(tiles, level.rows, level.cols)
       IN  /\ Len(matches) = 1
           /\ matches[1].matchLength = 4
           /\ matches[1].tileType = 1
    /\ Len(returned.value.bc) = 1
    /\ Cardinality(returned.value.rm) = 3
    /\ returned.value.credit[1] = 3

\* C28: the bomb of a match of four or more that crosses no match of its type
\* is created at the swap destination if that is a cell of the match, else at
\* the swap origin if that is one, else at the cell of index floor(n/2) of the
\* match; the bomb of a crossing pair likewise, with the shared cell as the
\* last choice; the swap counts in the first turn of the loop only; and the
\* removal step gives the bomb's type to the tile that is at the cell, which
\* keeps its id and is the only tile there, no tile being created.
C28_BombPlacedAndOverwrites ==
    returned.fn = "processMatches" =>
        LET matches == findMatches(tiles, level.rows, level.cols)
            pass == returned.value
            bc == pass.bc
            swap == returned.args.swap
            swapCounts == returned.args.isFirstIteration /\ swap # <<>>
            cells(k) == Range(matches[k].positions)
            place(among, last) ==
                IF swapCounts /\ swap[2] \in among THEN swap[2]
                ELSE IF swapCounts /\ swap[1] \in among THEN swap[1]
                ELSE last
            crossing == {pr \in (DOMAIN matches) \X (DOMAIN matches) :
                            /\ matches[pr[1]].direction = "horizontal"
                            /\ matches[pr[2]].direction = "vertical"
                            /\ matches[pr[1]].tileType = matches[pr[2]].tileType
                            /\ cells(pr[1]) \cap cells(pr[2]) # {}}
            alone == {k \in DOMAIN matches : \A pr \in crossing : k # pr[1] /\ k # pr[2]}
            kept == SelectSeq(tiles, LAMBDA t : t.id \notin pass.rm)
            bombed == CreateBombs(kept, bc, 1, tileIdCounter)
        IN  /\ \A k \in alone :
                matches[k].matchLength >= 4 =>
                    \A j \in DOMAIN bc :
                        bc[j].position \in cells(k) =>
                            bc[j].position =
                                place(cells(k),
                                      matches[k].positions[(matches[k].matchLength \div 2) + 1])
            /\ \A pr \in crossing :
                \E j \in DOMAIN bc :
                    bc[j].position =
                        place(cells(pr[1]) \cup cells(pr[2]),
                              CHOOSE p \in cells(pr[1]) : p \in cells(pr[2]))
            /\ bombed.nextId = tileIdCounter
            /\ \A j \in DOMAIN bc :
                LET at == {i \in DOMAIN bombed.tiles :
                            <<bombed.tiles[i].row, bombed.tiles[i].col>> = bc[j].position}
                IN  /\ Cardinality(at) = 1
                    /\ \A i \in at :
                        /\ bombed.tiles[i].type = bc[j].bombType
                        /\ bombed.tiles[i].id
                            = getTileAt(tiles, bc[j].position[1], bc[j].position[2]).id

\* a swap whose origin is a cell of a match of four that does not hold its
\* destination: the bomb is at the origin, away from the midpoint
C28_BombAtSwapOrigin ==
    /\ returned.fn = "processMatches"
    /\ returned.args.isFirstIteration
    /\ returned.args.swap # <<>>
    /\ Len(returned.value.bc) = 1
    /\ returned.value.bc[1].position = returned.args.swap[1]
    /\ LET matches == findMatches(tiles, level.rows, level.cols)
       IN  /\ Len(matches) = 1
           /\ matches[1].matchLength = 4
           /\ returned.args.swap[2] \notin Range(matches[1].positions)
           /\ returned.args.swap[1] # matches[1].positions[3]

\* C29: findMatches returns one MatchInfo for every maximal horizontal or
\* vertical run of three or more cells of one ordinary type, each with the
\* run's cells, direction, length and type, and nothing else; no MatchInfo
\* holds a cell with a bomb, a wooden or a stone tile.
C29_MatchesAreMaximalRuns ==
    returned.fn = "findMatches" =>
        LET rows == level.rows
            cols == level.cols
            typeAt(p) == IF InGrid(p, rows, cols) THEN getTileAt(tiles, p[1], p[2]).type ELSE -1
            lines == {<<r, lo, hi, "horizontal">> :
                            r \in 0 .. rows - 1, lo \in 0 .. cols - 1, hi \in 0 .. cols - 1}
                     \cup {<<c, lo, hi, "vertical">> :
                            c \in 0 .. cols - 1, lo \in 0 .. rows - 1, hi \in 0 .. rows - 1}
            cell(ln, k) == IF ln[4] = "horizontal" THEN <<ln[1], k>> ELSE <<k, ln[1]>>
            isRun(ln) ==
                /\ ln[3] - ln[2] >= 2
                /\ typeAt(cell(ln, ln[2])) >= 0
                /\ typeAt(cell(ln, ln[2])) < 100
                /\ \A k \in ln[2] .. ln[3] : typeAt(cell(ln, k)) = typeAt(cell(ln, ln[2]))
                /\ typeAt(cell(ln, ln[2] - 1)) # typeAt(cell(ln, ln[2]))
                /\ typeAt(cell(ln, ln[3] + 1)) # typeAt(cell(ln, ln[2]))
            runs == {ln \in lines : isRun(ln)}
            matches == returned.value
            ofRun(m, ln) ==
                /\ m.direction = ln[4]
                /\ m.positions = [k \in 1 .. ln[3] - ln[2] + 1 |-> cell(ln, ln[2] + k - 1)]
                /\ m.matchLength = ln[3] - ln[2] + 1
                /\ m.tileType = typeAt(cell(ln, ln[2]))
        IN  /\ \A ln \in runs :
                Cardinality({k \in DOMAIN matches : ofRun(matches[k], ln)}) = 1
            /\ \A k \in DOMAIN matches : \E ln \in runs : ofRun(matches[k], ln)
            /\ \A k \in DOMAIN matches : \A p \in Range(matches[k].positions) :
                    /\ ~isBomb(typeAt(p))
                    /\ ~isWoodenTile(typeAt(p))
                    /\ ~isStoneTile(typeAt(p))

(***************************************************************************)
(* The order of the steps of a pass, with the player acting at any         *)
(* FRAME_DELAY of a running resolution and not only at the instants at     *)
(* which timers fire                                                       *)
(***************************************************************************)
\* FRAME_DELAY passes with no timer due, while a resolution is running and
\* the handlers take requests
Tick ==
    /\ Loops # {}
    /\ ~isAnimating /\ ~isComplete /\ ~isFailed
    /\ \A i \in DOMAIN tasks : tasks[i].due > FRAME_DELAY
    /\ tasks' = [i \in DOMAIN tasks |-> [tasks[i] EXCEPT !.due = @ - FRAME_DELAY]]
    /\ UNCHANGED <<level, tiles, tileIdCounter, movesUsed, goalProgress, selectedTile,
                   isAnimating, isComplete, isFailed, isReshuffling, goalsMetDuringAnimation,
                   exhaustions, rejected, fired, returned>>

\* the level of one row
TickInit == Init /\ level = LevelLine

TickSpec == TickInit /\ [][Next \/ Tick]_vars

\* the step of timer i is a turn of the loop of processMatches: the call of
\* processMatches after SWAP_SETTLE of a swap without bombs or after the last
\* blast, or the turn that follows FALL_SETTLE
ScanStep(i) ==
    /\ IsNext(i)
    /\ fired' # fired
    /\ \/ tasks[i].pc = "settled" /\ tasks[i].bombs = <<>>
       \/ tasks[i].pc = "settle" /\ tasks[i].idIsBomb = <<FALSE, FALSE>>

\* C30: the step that accounts the goals and damages the obstacles removes no
\* tile and is followed, for its pass, by the removal (with the bombs and the
\* refill), then by the gravity, then by the wait after which the loop scans
\* again; and a scan never reads a board that holds a refilled tile which has
\* not come down, nor runs while a pass waits between removal and gravity.
C30_PassStepsInOrder ==
    [][\A i \in DOMAIN tasks :
        (IsNext(i) /\ fired' # fired) =>
            LET next == tasks'[Len(tasks')]
            IN  /\ (/\ tasks[i].pc \in {"settle", "settled"}
                    /\ Len(tasks') = Len(tasks)
                    /\ next.pc = "remove")
                    => /\ {tiles'[k].id : k \in DOMAIN tiles'} = {tiles[k].id : k \in DOMAIN tiles}
                       /\ \A k \in DOMAIN tiles' : tiles'[k].id \in next.rm => tiles'[k].rm
                /\ tasks[i].pc = "remove"
                    => /\ next.pc = "gravity"
                       /\ \A k \in DOMAIN tiles' : tiles'[k].id \notin tasks[i].rm
                /\ tasks[i].pc = "gravity"
                    => /\ next.pc = "settled"
                       /\ tiles' = applyGravity(tiles, level.rows, level.cols)
                /\ ScanStep(i)
                    => /\ \A k \in DOMAIN tiles : tiles[k].row >= 0
                       /\ \A j \in DOMAIN tasks : tasks[j].pc # "gravity"]_vars


(***************************************************************************)
(* The refill and the scan that follows it                                 *)
(***************************************************************************)
\* the cells of the matches findMatches reports
MatchedCells(ts, rows, cols) ==
    LET matches == findMatches(ts, rows, cols)
    IN  UNION {Range(matches[k].positions) : k \in DOMAIN matches}

\* C31: with accidentalMatchesChance = 0, when the loop scans after a refill of
\* which no draw loop ran out of attempts, every tile that refill spawned lies
\* at the finalRow and col its type was chosen for, and none of them is in a
\* match that scan finds.
C31_SpawnedTilesMatchNothing ==
    [][\A i \in DOMAIN tasks :
        (/\ ScanStep(i)
         /\ level.accidentalMatchesChance = 0
         /\ ~tasks[i].spawned.exhausted) =>
            \A s \in tasks[i].spawned.at :
                /\ \E k \in DOMAIN tiles :
                        tiles[k].id = s.id /\ tiles[k].row = s.row /\ tiles[k].col = s.col
                /\ <<s.row, s.col>> \notin MatchedCells(tiles, level.rows, level.cols)]_vars


(***************************************************************************)
(* Wood damage of a match pass and of a blast, each on its own: every      *)
(* board of one row or one column of five cells (ordinary, wooden, broken  *)
(* wooden and area bomb tiles), of three rows and three columns (ordinary  *)
(* and wooden tiles) and of two rows and three columns (ordinary, wooden   *)
(* and horizontal bomb tiles)                                              *)
(***************************************************************************)
DamageInit ==
    \/ \E dims \in {<<1, 5>>, <<5, 1>>} :
        \E ts \in FullBoards(dims[1], dims[2], {0, WOOD_NORMAL, WOOD_BROKEN, BOMB_AREA}) :
            Mounted(Level(dims[1], dims[2], <<0, 1, 2>>, <<>>, 1, <<>>, <<>>), ts)
    \/ \E ts \in FullBoards(3, 3, {0, WOOD_NORMAL}) :
            Mounted(Level(3, 3, <<0, 1, 2>>, <<>>, 1, <<>>, <<>>), ts)
    \/ \E ts \in FullBoards(2, 3, {0, WOOD_NORMAL, BOMB_HORIZONTAL}) :
            Mounted(Level(2, 3, <<0, 1, 2>>, <<>>, 1, <<>>, <<>>), ts)

\* triggerBombAtPosition(bomb, currentTiles) up to the marking of the tiles:
\* what it decided
CallTriggerBombAtPosition ==
    /\ returned = NoCall
    /\ \E k \in DOMAIN tiles :
        /\ isBomb(tiles[k].type)
        /\ returned' = [fn |-> "triggerBombAtPosition", args |-> tiles[k],
                        value |-> BombBlast(tiles, level.rows, level.cols, tiles[k])]
    /\ UNCHANGED <<tiles, tileIdCounter, exhaustions>>
    /\ CallFrame

DamageSpec == DamageInit /\ [][CallProcessMatches \/ CallTriggerBombAtPosition]_vars

\* C32: a match pass damages exactly the wooden tiles that lie next to a
\* matched cell (above, below, left or right of it); the blast of a triggered
\* bomb damages exactly the wooden tiles at a position of its blast set, so
\* that wood next to a blast cell and outside the set is left alone.  A
\* damaged tile is one the pass breaks (normal to broken) or removes (broken).
C32_WoodDamageByPath ==
    LET pass == returned.value
        wood == {t \in Range(tiles) : isWoodenTile(t.type)}
        damaged == {t \in wood : t.id \in pass.brk \cup pass.rm}
        nextTo(t, cells) == \E p \in cells : Abs(p[1] - t.row) + Abs(p[2] - t.col) = 1
    IN  /\ returned.fn = "processMatches" =>
                damaged = {t \in wood : nextTo(t, MatchedCells(tiles, level.rows, level.cols))}
        /\ returned.fn = "triggerBombAtPosition" =>
                /\ damaged = {t \in wood : <<t.row, t.col>> \in pass.matched}
                /\ pass.matched =
                        DOMAIN collectBombPropagation(<<[bomb |-> returned.args, delayMs |-> 0]>>,
                                                      tiles, level.rows, level.cols).positionHitDelayMs
                /\ \A t \in wood :
                        (nextTo(t, pass.matched) /\ <<t.row, t.col>> \notin pass.matched)
                            => t.id \notin pass.brk \cup pass.rm

\* C32 witness: a bomb has been triggered on a board with a wooden tile in its
\* blast set, which is damaged, and a wooden tile next to a blast cell and
\* outside the set, which is not
C32_BlastSparesWoodBeside ==
    /\ returned.fn = "triggerBombAtPosition"
    /\ \E t, u \in Range(tiles) :
        /\ t.type = WOOD_NORMAL /\ u.type = WOOD_NORMAL
        /\ <<t.row, t.col>> \in returned.value.matched
        /\ t.id \in returned.value.brk
        /\ <<u.row, u.col>> \notin returned.value.matched
        /\ \E p \in returned.value.matched : Abs(p[1] - u.row) + Abs(p[2] - u.col) = 1
        /\ u.id \notin returned.value.brk \cup returned.value.rm


(***************************************************************************)
(* Reshuffles and the end of the game                                      *)
(***************************************************************************)
\* C33: the step that starts a reshuffle (it sets isReshuffling) leaves the
\* game neither complete nor failed, and the step that replaces the tile
\* types by reshuffleTiles is taken only while the game is neither complete
\* nor failed.
C33_NoReshuffleOnceOver ==
    [][/\ (~isReshuffling /\ isReshuffling') => (~isComplete' /\ ~isFailed')
       /\ \A i \in DOMAIN tasks :
            (IsNext(i) /\ tasks[i].pc = "reshuffle" /\ fired' # fired)
                => (~isComplete /\ ~isFailed)]_vars


(***************************************************************************)
(* The goal for the wooden tiles                                           *)
(***************************************************************************)
\* the wooden tiles of the list, normal or broken
WoodOnBoard == {k \in DOMAIN tiles : isWoodenTile(tiles[k].type)}

\* C34: for a level that places wooden tiles and declares no goal for the
\* wood type, the goals of the hook are the declared ones followed by a goal
\* for the wood type whose count is the number of wooden positions, the wood
\* counter is 0 until a move has been made, and the level is not complete
\* while a wooden tile is on the board; for a level that declares a goal for
\* the wood type the goals are the declared ones.
C34_ImplicitWoodGoal ==
    LET placed == Len(level.woodenTilePositions)
        declared == \E i \in DOMAIN level.goals : level.goals[i].tileType = WOOD_NORMAL
    IN  /\ (placed > 0 /\ ~declared) =>
            /\ enhancedGoals(level) = Append(level.goals, Goal(WOOD_NORMAL, placed))
            /\ movesUsed = 0 => goalProgress[WOOD_NORMAL] = 0
            /\ isComplete => WoodOnBoard = {}
        /\ declared => enhancedGoals(level) = level.goals

\* C34 witness: a level with the added wood goal is complete, its wooden tile
\* destroyed
C34_CompleteOnceWoodGone ==
    /\ Len(level.woodenTilePositions) > 0
    /\ \A i \in DOMAIN level.goals : level.goals[i].tileType # WOOD_NORMAL
    /\ isComplete
    /\ WoodOnBoard = {}
    /\ goalProgress[WOOD_NORMAL] = Len(level.woodenTilePositions)


\* C35: in every state the wood counter of goalProgress plus the number of
\* wooden tiles of the list (normal or broken) that are not marked for removal
\* is the number of wooden positions of the level, and no step lowers a
\* counter of goalProgress.
C35_WoodAccounted ==
    [][LET liveWood(ts) == Cardinality({k \in DOMAIN ts : isWoodenTile(ts[k].type) /\ ~ts[k].rm})
           placed == Len(level.woodenTilePositions)
       IN  /\ goalProgress[WOOD_NORMAL] + liveWood(tiles) = placed
           /\ goalProgress'[WOOD_NORMAL] + liveWood(tiles') = placed
           /\ \A ty \in ProgressTypes : goalProgress'[ty] >= goalProgress[ty]]_vars

\* C35 witness: the wooden tile of the level has been broken, then destroyed
\* and counted once, and has left the list
C35_WoodCountedOnce ==
    /\ Len(level.woodenTilePositions) = 1
    /\ goalProgress[WOOD_NORMAL] = 1
    /\ WoodOnBoard = {}
    /\ \E i \in DOMAIN tasks : tasks[i].pc = "gravity"

\* C35, every wooden tile of the list counted: the wood counter plus the
\* number of wooden tiles of the list, marked for removal or not, is the
\* number of wooden positions of the level
C35_WoodAccountedInList ==
    goalProgress[WOOD_NORMAL] + Cardinality(WoodOnBoard) = Len(level.woodenTilePositions)


\* C36: isComplete and isFailed are never both true (so that once one of them
\* is set, the other is not set afterwards: neither flag is ever reset).
C36_CompleteOrFailed ==
    ~(isComplete /\ isFailed)


\* C37: in every state 0 <= movesUsed <= maxMoves.
C37_MovesWithinLimit ==
    movesUsed >= 0 /\ movesUsed <= level.maxMoves


(***************************************************************************)
(* Bombs and match passes: the hook mounted on a board of one row and five *)
(* columns whose last one, two or three cells hold bombs (vertical ones,   *)
(* or one horizontal bomb) and whose other cells hold ordinary tiles, with *)
(* no three ordinary tiles of one type in a row, and one move              *)
(***************************************************************************)
LineBombInit ==
    \E ts \in FullBoards(1, 5, {0, 1, BOMB_HORIZONTAL, BOMB_VERTICAL}) :
        /\ \E n \in 1 .. 3 :
            /\ \A k \in 1 .. 5 - n : ts[k].type < 100
            /\ \/ \A k \in 6 - n .. 5 : ts[k].type = BOMB_VERTICAL
               \/ n = 1 /\ ts[5].type = BOMB_HORIZONTAL
        /\ \A k \in 1 .. 3 :
                ~(ts[k].type < 100 /\ ts[k].type = ts[k + 1].type /\ ts[k].type = ts[k + 2].type)
        /\ Mounted(Level(1, 5, <<0, 1>>, <<Goal(0, 9)>>, 1, <<>>, <<>>), ts)

LineBombSpec == LineBombInit /\ [][Next]_vars

\* C38: when the loop of processMatches scans, no matched position holds a
\* bomb, and the marking of that pass flags no bomb for removal; a bomb keeps
\* its id and its type in every step until it is flagged for removal, which
\* only the blast of a tapped or swapped bomb does, and it leaves the list
\* only once it is flagged.
C38_MatchPassSparesBombs ==
    [][LET bombsOf(ts) == {t \in Range(ts) : isBomb(t.type)}
           tap == /\ fired' = fired
                  /\ movesUsed' = movesUsed + 1
                  /\ tasks' # <<>>
                  /\ tasks'[Len(tasks')].pc = "remove"
           swapBlast == \E i \in DOMAIN tasks :
                            /\ IsNext(i) /\ fired' # fired
                            /\ \/ tasks[i].pc = "settled" /\ tasks[i].bombs # <<>>
                               \/ tasks[i].pc = "settle" /\ TRUE \in Range(tasks[i].idIsBomb)
       IN  /\ \A i \in DOMAIN tasks :
                ScanStep(i) =>
                    /\ \A p \in MatchedCells(tiles, level.rows, level.cols) :
                            ~isBomb(getTileAt(tiles, p[1], p[2]).type)
                    /\ \A b \in bombsOf(tiles) :
                            ~b.rm => \E c \in Range(tiles') :
                                        c.id = b.id /\ c.type = b.type /\ ~c.rm
           /\ \A b \in bombsOf(tiles) :
                \/ \E c \in Range(tiles') :
                        /\ c.id = b.id /\ c.type = b.type
                        /\ (c.rm = b.rm \/ (c.rm /\ (tap \/ swapBlast)))
                \/ b.rm /\ \A c \in Range(tiles') : c.id # b.id]_vars

\* C38 witness: a match pass has marked its tiles (no blast in the handler so
\* far) and a bomb of the board is not among them
C38_BombBesideMatch ==
    \E i \in DOMAIN tasks :
        /\ tasks[i].pc = "remove"
        /\ tasks[i].rm # {}
        /\ tasks[i].blasts = <<>>
        /\ Cardinality(Loops) = 1
        /\ \E k \in DOMAIN tiles : isBomb(tiles[k].type) /\ ~tiles[k].rm


\* C39: the marking of a pass (a match pass or a blast) takes a wooden tile
\* one step at most, however many matched or blast cells are at it or next to
\* it: a normal wooden tile is left alone or becomes broken and is not flagged
\* for removal, a broken one is left alone or flagged for removal, and the
\* pass credits the wood goal once for each broken tile it removes and not at
\* all for a tile it breaks.
C39_OneDamageStepPerPass ==
    returned.fn \in {"processMatches", "triggerBombAtPosition"} =>
        LET pass == returned.value
            marked == MarkTiles(tiles, pass)
        IN  /\ \A k \in DOMAIN tiles :
                /\ tiles[k].type = WOOD_NORMAL =>
                    /\ tiles[k].id \notin pass.rm
                    /\ ~marked[k].rm
                    /\ marked[k].type = (IF tiles[k].id \in pass.brk THEN WOOD_BROKEN
                                         ELSE WOOD_NORMAL)
                /\ tiles[k].type = WOOD_BROKEN =>
                    /\ tiles[k].id \notin pass.brk
                    /\ marked[k].type = WOOD_BROKEN
                    /\ marked[k].rm = (tiles[k].id \in pass.rm)
            /\ pass.credit[WOOD_NORMAL] =
                    Cardinality({k \in DOMAIN tiles :
                                    tiles[k].type = WOOD_BROKEN /\ tiles[k].id \in pass.rm})
            /\ pass.credit[WOOD_BROKEN] = 0

\* C39 witness: a match pass on a board where a normal wooden tile has matched
\* cells on two sides; the pass breaks it and does not remove it
C39_WoodTouchedTwiceBrokenOnce ==
    /\ returned.fn = "processMatches"
    /\ \E k \in DOMAIN tiles :
        /\ tiles[k].type = WOOD_NORMAL
        /\ Cardinality({p \in returned.value.matched :
                            Abs(p[1] - tiles[k].row) + Abs(p[2] - tiles[k].col) = 1}) >= 2
        /\ tiles[k].id \in returned.value.brk
        /\ tiles[k].id \notin returned.value.rm
        /\ MarkTiles(tiles, returned.value)[k].type = WOOD_BROKEN


\* C40: at most one run of checkAndReshuffleIfNeeded is between its start
\* (isReshuffling set) and its end at any time, so that the check awaited by
\* the handler and the one set on a timer by processMatches never both
\* reshuffle the board a move has left.
C40_OneReshuffleAtATime ==
    Cardinality(Reshuffles) <= 1

====
